---- MODULE Spec2Model ----
(***************************************************************************)
(* A model of JsonhRs: the JSONH reader (jsonh_reader.rs), its options and *)
(* the number parser (jsonh_number_parser.rs).                             *)
(*                                                                         *)
(* A character is a one-character string, a text is a sequence of          *)
(* characters.  The reader 'self' is a record holding the remaining        *)
(* source, the options, char_counter and depth, plus the suspended         *)
(* generator frames ('stack') of the token stream being read and the item  *)
(* the stream has just yielded ('out').                                    *)
(***************************************************************************)
EXTENDS Integers, Sequences, FiniteSets, TLC

VARIABLES input, self, mode, phase, yielded, current_elements,
          current_property_name, result, property_name, current_depth, found,
          other

vars == <<input, self, mode, phase, yielded, current_elements,
          current_property_name, result, property_name, current_depth, found,
          other>>

-----------------------------------------------------------------------------
(* Bounds of the model.                                                    *)

MaxPieces == 4
MaxNumberLen == 3

-----------------------------------------------------------------------------
(* Characters.                                                             *)

NoChar == ""

RESERVED_CHARS_V1 == {"\\", ",", ":", "[", "]", "{", "}", "/", "#", "\"", "'"}
RESERVED_CHARS_V2 == RESERVED_CHARS_V1 \cup {"@"}
CHAR_LS == "U+2028"
CHAR_PS == "U+2029"
NEWLINE_CHARS == {"\n", "\r", CHAR_LS, CHAR_PS}
WHITESPACE_CHARS == {" ", "\t", "\n", "\r", "\f", "\\v", CHAR_LS, CHAR_PS}

\* char::is_whitespace (White_Space) and WHITESPACE_CHARS list the same
\* code points.
is_whitespace(ch) == ch \in WHITESPACE_CHARS

to_ascii_lowercase(ch) ==
    CASE ch = "A" -> "a" [] ch = "B" -> "b" [] ch = "C" -> "c"
      [] ch = "D" -> "d" [] ch = "E" -> "e" [] ch = "F" -> "f"
      [] ch = "X" -> "x" [] ch = "O" -> "o" [] ch = "I" -> "i"
      [] ch = "N" -> "n" [] ch = "T" -> "t" [] ch = "Y" -> "y"
      [] OTHER -> ch

DecDigits == <<"0", "1", "2", "3", "4", "5", "6", "7", "8", "9">>
HexDigits == DecDigits \o <<"a", "b", "c", "d", "e", "f">>
BinDigits == <<"0", "1">>
OctDigits == <<"0", "1", "2", "3", "4", "5", "6", "7">>

Contains(seq, x) == \E i \in 1..Len(seq) : seq[i] = x
\* str::find on a digit alphabet: the zero-based index, or -1
Find(seq, x) == IF Contains(seq, x)
                THEN (CHOOSE i \in 1..Len(seq) : seq[i] = x) - 1
                ELSE -1
Last(seq) == seq[Len(seq)]
EndsWith(seq, x) == Len(seq) > 0 /\ seq[Len(seq)] = x

-----------------------------------------------------------------------------
(* Versions and options.                                                   *)

LATEST_VERSION == "V2"
VersionRank(v) == CASE v = "Latest" -> 0 [] v = "V1" -> 1 [] v = "V2" -> 2

\* supports_version of a reader that supports every version
supports_version_of_latest(options, minimum_version) == TRUE

supports_version(options, minimum_version) ==
    LET options_version == IF options.version = "Latest" THEN LATEST_VERSION
                           ELSE options.version
        given_version == IF minimum_version = "Latest" THEN LATEST_VERSION
                         ELSE minimum_version
    IN  VersionRank(options_version) >= VersionRank(given_version)

DefaultMaxDepth == 64

JsonhReaderOptions_new ==
    [version |-> "Latest", parse_single_element |-> FALSE,
     max_depth |-> DefaultMaxDepth, incomplete_inputs |-> FALSE]

reserved_chars(rd) == IF supports_version(rd.options, "V2")
                      THEN RESERVED_CHARS_V2 ELSE RESERVED_CHARS_V1

-----------------------------------------------------------------------------
(* Tokens and stream items.  In the error texts the source's backquotes    *)
(* are written as apostrophes.                                             *)

JsonhToken_new(json_type, value) == [json_type |-> json_type, value |-> value]
JsonhToken_new_empty(json_type) == JsonhToken_new(json_type, <<>>)
NoToken == JsonhToken_new("None", <<>>)

Ok(token) == [kind |-> "Ok", token |-> token, err |-> ""]
Err(msg) == [kind |-> "Err", token |-> NoToken, err |-> msg]
NoItem == [kind |-> "None", token |-> NoToken, err |-> ""]
\* A panic of the Rust runtime (an out-of-range drain, a failed unwrap)
Panic(msg) == [kind |-> "Panic", token |-> NoToken, err |-> msg]
is_err(item) == item.kind = "Err"
is_ok(item) == item.kind = "Ok"

-----------------------------------------------------------------------------
(* The cursor: peek, read, read_one, read_any.                             *)

peek(rd) == IF rd.source = <<>> THEN NoChar ELSE Head(rd.source)

read(rd) == IF rd.source = <<>> THEN rd
            ELSE [rd EXCEPT !.source = Tail(@)]

can_read_one(rd, option) == peek(rd) = option
read_one(rd, option) == IF peek(rd) = option THEN read(rd) ELSE rd

can_read_any(rd, options) == peek(rd) # NoChar /\ peek(rd) \in options
read_any(rd, options) == IF can_read_any(rd, options) THEN read(rd) ELSE rd

RECURSIVE read_whitespace(_)
read_whitespace(rd) ==
    IF peek(rd) # NoChar /\ is_whitespace(peek(rd))
    THEN read_whitespace(read(rd))
    ELSE rd

-----------------------------------------------------------------------------
(* Escape sequences.                                                       *)

NoSurrogate == -1

is_utf16_high_surrogate(code_point) == code_point >= 55296 /\ code_point <= 56319
is_utf16_low_surrogate(code_point) == code_point >= 56320 /\ code_point <= 57343

\* utf16_surrogates_to_code_point without the 0x10000 of the first
\* supplementary code point
utf16_surrogates_to_code_point_of_low_bits(high_surrogate, low_surrogate) ==
    IF ~is_utf16_high_surrogate(high_surrogate)
    THEN [err |-> "High surrogate out of range", value |-> 0]
    ELSE IF ~is_utf16_low_surrogate(low_surrogate)
    THEN [err |-> "Low surrogate out of range", value |-> 0]
    ELSE [err |-> "",
          value |-> (high_surrogate - 55296) * 1024 + (low_surrogate - 56320)]

\* Ok(code point), or the error text
utf16_surrogates_to_code_point(high_surrogate, low_surrogate) ==
    IF ~is_utf16_high_surrogate(high_surrogate)
    THEN [err |-> "High surrogate out of range", value |-> 0]
    ELSE IF ~is_utf16_low_surrogate(low_surrogate)
    THEN [err |-> "Low surrogate out of range", value |-> 0]
    ELSE [err |-> "",
          value |-> 65536 + ((high_surrogate - 55296) * 1024
                             + (low_surrogate - 56320))]

\* Control characters that have no TLA+ string escape are written as the
\* escape that produces them.
CHAR_NUL == "\\0"
CHAR_BEL == "\\a"
CHAR_BS == "\\b"
CHAR_VT == "\\v"
CHAR_ESC == "\\e"

\* The characters of the model's alphabets, by code point.  Every other
\* scalar value is one character outside these alphabets, written "U+"
\* and its code point.
CodePointChars ==
    (0 :> CHAR_NUL) @@ (7 :> CHAR_BEL) @@ (8 :> CHAR_BS) @@ (9 :> "\t")
    @@ (10 :> "\n") @@ (11 :> CHAR_VT) @@ (12 :> "\f") @@ (13 :> "\r")
    @@ (27 :> CHAR_ESC) @@ (32 :> " ") @@ (48 :> "0") @@ (49 :> "1")
    @@ (58 :> ":") @@ (65 :> "A") @@ (97 :> "a")

\* char::from_u32: None (NoChar) for a surrogate or a value above 0x10FFFF
char_from_u32(code_point) ==
    IF is_utf16_high_surrogate(code_point) \/ is_utf16_low_surrogate(code_point)
       \/ code_point > 1114111
    THEN NoChar
    ELSE IF code_point \in DOMAIN CodePointChars
    THEN CodePointChars[code_point]
    ELSE "U+" \o ToString(code_point)

HexDigitValue(ch) == Find(HexDigits, to_ascii_lowercase(ch))
IsHexDigit(ch) == ch # NoChar /\ HexDigitValue(ch) >= 0

RECURSIVE read_hex_sequence(_, _, _)
\* [rd, err, value]: LENGTH characters are read; the first that is no
\* hexadecimal digit (or the end of input) ends the sequence with an error
read_hex_sequence(rd, length, value) ==
    IF length = 0 THEN [rd |-> rd, err |-> "", value |-> value]
    ELSE LET next == peek(rd)
             rd1 == read(rd)
         IN  IF IsHexDigit(next)
             THEN read_hex_sequence(rd1, length - 1,
                                    (value * 16) + HexDigitValue(next))
             ELSE [rd |-> rd1,
                   err |-> "Incorrect number of hexadecimal digits in unicode escape sequence",
                   value |-> 0]

EscOk(rd, chars) == [rd |-> rd, err |-> "", chars |-> chars]
EscErr(rd, msg) == [rd |-> rd, err |-> msg, chars |-> <<>>]

RECURSIVE read_escape_sequence(_, _)
RECURSIVE read_hex_escape_sequence(_, _, _)

\* [rd, err, chars]: chars holds the decoded character, or nothing for an
\* escaped newline
read_escape_sequence(rd, high_surrogate) ==
    LET escape_char == peek(rd)
        rd1 == read(rd)
    IN  IF escape_char = NoChar
        THEN EscErr(rd1, "Expected escape sequence, got end of input")
        ELSE IF high_surrogate # NoSurrogate /\ escape_char \notin {"u", "x", "U"}
        THEN EscErr(rd1, "Expected low surrogate after high surrogate")
        ELSE CASE escape_char = "\\" -> EscOk(rd1, <<"\\">>)
               [] escape_char = "b" -> EscOk(rd1, <<CHAR_BS>>)
               [] escape_char = "f" -> EscOk(rd1, <<"\f">>)
               [] escape_char = "n" -> EscOk(rd1, <<"\n">>)
               [] escape_char = "r" -> EscOk(rd1, <<"\r">>)
               [] escape_char = "t" -> EscOk(rd1, <<"\t">>)
               [] escape_char = "v" -> EscOk(rd1, <<CHAR_VT>>)
               [] escape_char = "0" -> EscOk(rd1, <<CHAR_NUL>>)
               [] escape_char = "a" -> EscOk(rd1, <<CHAR_BEL>>)
               [] escape_char = "e" -> EscOk(rd1, <<CHAR_ESC>>)
               [] escape_char = "u" -> read_hex_escape_sequence(rd1, 4, high_surrogate)
               [] escape_char = "x" -> read_hex_escape_sequence(rd1, 2, high_surrogate)
               [] escape_char = "U" -> read_hex_escape_sequence(rd1, 8, high_surrogate)
               [] escape_char \in NEWLINE_CHARS ->
                    EscOk(IF escape_char = "\r" THEN read_one(rd1, "\n") ELSE rd1, <<>>)
               [] OTHER -> EscOk(rd1, <<escape_char>>)

\* read_hex_escape_sequence after read_hex_sequence: hex is [rd, err, value]
hex_code_point(hex, high_surrogate) ==
    IF hex.err # "" THEN EscErr(hex.rd, hex.err)
    ELSE IF high_surrogate # NoSurrogate
    THEN LET combined == utf16_surrogates_to_code_point(high_surrogate, hex.value)
         IN  IF combined.err # "" THEN EscErr(hex.rd, combined.err)
             ELSE IF char_from_u32(combined.value) = NoChar
             THEN EscErr(hex.rd, "Invalid hex escape sequence")
             ELSE EscOk(hex.rd, <<char_from_u32(combined.value)>>)
    ELSE IF is_utf16_high_surrogate(hex.value) /\ can_read_one(hex.rd, "\\")
    THEN read_escape_sequence(read_one(hex.rd, "\\"), hex.value)
    ELSE IF char_from_u32(hex.value) = NoChar
    THEN EscErr(hex.rd, "Invalid hex escape sequence")
    ELSE EscOk(hex.rd, <<char_from_u32(hex.value)>>)

read_hex_escape_sequence(rd, length, high_surrogate) ==
    hex_code_point(read_hex_sequence(rd, length, 0), high_surrogate)

-----------------------------------------------------------------------------
(* Quoteless strings.                                                      *)

RECURSIVE TrimStart(_)
TrimStart(s) == IF s # <<>> /\ Head(s) \in WHITESPACE_CHARS
                THEN TrimStart(Tail(s)) ELSE s
RECURSIVE TrimEnd(_)
TrimEnd(s) == IF s # <<>> /\ Last(s) \in WHITESPACE_CHARS
              THEN TrimEnd(SubSeq(s, 1, Len(s) - 1)) ELSE s
\* str::trim_matches(WHITESPACE_CHARS)
trim_matches(s) == TrimEnd(TrimStart(s))

Res(rd, item) == [rd |-> rd, item |-> item]

RECURSIVE read_quoteless_chars(_, _, _, _)
\* quoteless_escape after which a named literal is still possible
quoteless_escape_keeping_named_literal(esc, string_builder, is_verbatim) ==
    IF esc.err # ""
    THEN [rd |-> esc.rd, err |-> esc.err, string_builder |-> string_builder,
          is_named_literal_possible |-> FALSE]
    ELSE read_quoteless_chars(esc.rd, string_builder \o esc.chars, is_verbatim,
                              ~is_verbatim)

\* The escape sequence esc, [rd, err, chars], read in a quoteless string
quoteless_escape(esc, string_builder, is_verbatim) ==
    IF esc.err # ""
    THEN [rd |-> esc.rd, err |-> esc.err, string_builder |-> string_builder,
          is_named_literal_possible |-> FALSE]
    ELSE read_quoteless_chars(esc.rd, string_builder \o esc.chars, is_verbatim,
                              FALSE)

\* The loop of read_quoteless_string:
\* [rd, err, string_builder, is_named_literal_possible]
read_quoteless_chars(rd, string_builder, is_verbatim, is_named_literal_possible) ==
    LET next == peek(rd)
        done == [rd |-> rd, err |-> "", string_builder |-> string_builder,
                 is_named_literal_possible |-> is_named_literal_possible]
    IN  IF next = NoChar THEN done
        ELSE IF next = "\\"
        THEN IF is_verbatim
             THEN read_quoteless_chars(read(rd), Append(string_builder, next),
                                       is_verbatim, FALSE)
             ELSE quoteless_escape(read_escape_sequence(read(rd), NoSurrogate),
                                   string_builder, is_verbatim)
        ELSE IF next \in reserved_chars(rd) THEN done
        ELSE IF next \in NEWLINE_CHARS THEN done
        ELSE read_quoteless_chars(read(rd), Append(string_builder, next),
                                  is_verbatim, is_named_literal_possible)

NullText == <<"n", "u", "l", "l">>
TrueText == <<"t", "r", "u", "e">>
FalseText == <<"f", "a", "l", "s", "e">>

\* read_quoteless_string after its loop: r is
\* [rd, err, string_builder, is_named_literal_possible]
quoteless_string_token(r) ==
    LET trimmed == trim_matches(r.string_builder)
    IN  IF r.err # "" THEN Res(r.rd, Err(r.err))
        ELSE IF r.string_builder = <<>>
        THEN Res(r.rd, Err("Empty quoteless string"))
        ELSE IF r.is_named_literal_possible /\ trimmed = NullText
        THEN Res(r.rd, Ok(JsonhToken_new("Null", NullText)))
        ELSE IF r.is_named_literal_possible /\ trimmed = TrueText
        THEN Res(r.rd, Ok(JsonhToken_new("True", TrueText)))
        ELSE IF r.is_named_literal_possible /\ trimmed = FalseText
        THEN Res(r.rd, Ok(JsonhToken_new("False", FalseText)))
        ELSE Res(r.rd, Ok(JsonhToken_new("String", trimmed)))

read_quoteless_string(rd, initial_chars, is_verbatim) ==
    quoteless_string_token(
        read_quoteless_chars(rd, initial_chars, is_verbatim, ~is_verbatim))

\* detect_quoteless_string without its loop over the whitespace
detect_quoteless_whitespace_not_skipped(rd, whitespace_builder) ==
    [rd |-> rd, whitespace_builder |-> whitespace_builder,
     newline |-> peek(rd) # NoChar /\ peek(rd) \in NEWLINE_CHARS]

RECURSIVE detect_quoteless_whitespace(_, _)
\* The loop of detect_quoteless_string: [rd, whitespace_builder, newline]
detect_quoteless_whitespace(rd, whitespace_builder) ==
    LET next == peek(rd)
    IN  IF next = NoChar
        THEN [rd |-> rd, whitespace_builder |-> whitespace_builder, newline |-> FALSE]
        ELSE IF next \in NEWLINE_CHARS
        THEN [rd |-> rd, whitespace_builder |-> whitespace_builder, newline |-> TRUE]
        ELSE IF next \notin WHITESPACE_CHARS
        THEN [rd |-> rd, whitespace_builder |-> whitespace_builder, newline |-> FALSE]
        ELSE detect_quoteless_whitespace(read(rd), Append(whitespace_builder, next))

\* detect_quoteless_string without its check for a newline
detect_quoteless_string_across_newline(rd) ==
    LET w == detect_quoteless_whitespace(rd, <<>>)
        next_char == peek(w.rd)
    IN  [rd |-> w.rd, whitespace_builder |-> w.whitespace_builder,
         found |-> IF next_char # NoChar
                   THEN next_char = "\\" \/ next_char \notin reserved_chars(w.rd)
                   ELSE FALSE]

\* [rd, whitespace_builder, found]
detect_quoteless_string(rd) ==
    LET w == detect_quoteless_whitespace(rd, <<>>)
        next_char == peek(w.rd)
    IN  [rd |-> w.rd, whitespace_builder |-> w.whitespace_builder,
         found |-> IF w.newline THEN FALSE
                   ELSE IF next_char # NoChar
                   THEN next_char = "\\" \/ next_char \notin reserved_chars(w.rd)
                   ELSE FALSE]


-----------------------------------------------------------------------------
(* Numbers: the tokenizer.                                                 *)

NumSt(rd, number_builder, err) ==
    [rd |-> rd, number_builder |-> number_builder, err |-> err]

RECURSIVE read_number_digits(_, _, _, _, _)
\* The loop of read_number_no_exponent: [rd, number_builder, err, is_empty]
read_number_digits(rd, number_builder, base_digits, is_fraction, is_empty) ==
    LET next == peek(rd)
        done(e) == [rd |-> rd, number_builder |-> number_builder, err |-> e,
                    is_empty |-> is_empty]
    IN  IF next = NoChar THEN done("")
        ELSE IF Contains(base_digits, to_ascii_lowercase(next))
        THEN read_number_digits(read(rd), Append(number_builder, next),
                                base_digits, is_fraction, FALSE)
        ELSE IF next = "."
        THEN IF EndsWith(number_builder, "_")
             THEN done("'.' must not follow '_' in number")
             ELSE IF is_fraction
             THEN [rd |-> read(rd), number_builder |-> Append(number_builder, next),
                   err |-> "Duplicate '.' in number", is_empty |-> FALSE]
             ELSE read_number_digits(read(rd), Append(number_builder, next),
                                     base_digits, TRUE, FALSE)
        ELSE IF next = "_"
        THEN IF EndsWith(number_builder, ".")
             THEN done("'_' must not follow '.' in number")
             ELSE read_number_digits(read(rd), Append(number_builder, next),
                                     base_digits, is_fraction, FALSE)
        ELSE done("")

read_number_no_exponent(rd, number_builder, base_digits, has_base_specifier, has_leading_zero) ==
    IF ~has_base_specifier /\ ~has_leading_zero /\ peek(rd) = "_"
    THEN NumSt(rd, number_builder, "Leading '_' in number")
    ELSE LET r == read_number_digits(rd, number_builder, base_digits, FALSE,
                                     ~has_leading_zero)
         IN  IF r.err # "" THEN NumSt(r.rd, r.number_builder, r.err)
             ELSE IF r.is_empty
             THEN NumSt(r.rd, r.number_builder, "Empty number")
             ELSE IF \A i \in 1..Len(r.number_builder) :
                        r.number_builder[i] \in {".", "-", "+", "_"}
             THEN NumSt(r.rd, r.number_builder, "Number must have at least one digit")
             ELSE IF EndsWith(r.number_builder, "_")
             THEN NumSt(r.rd, r.number_builder, "Trailing '_' in number")
             ELSE NumSt(r.rd, r.number_builder, "")

\* One 'if let Some(c) = self.read_any(&[..])' of the base specifier block
read_base_specifier(st, options, base_digits) ==
    IF can_read_any(st.rd, options)
    THEN [rd |-> read(st.rd),
          number_builder |-> Append(st.number_builder, peek(st.rd)),
          base_digits |-> base_digits, has_base_specifier |-> TRUE,
          has_leading_zero |-> FALSE]
    ELSE st

\* The sign and the base of read_number:
\* [rd, number_builder, base_digits, has_base_specifier, has_leading_zero]
read_number_base(rd) ==
    LET s0 == [rd |-> read_any(rd, {"-", "+"}),
               number_builder |-> IF can_read_any(rd, {"-", "+"})
                                  THEN <<peek(rd)>> ELSE <<>>,
               base_digits |-> DecDigits, has_base_specifier |-> FALSE,
               has_leading_zero |-> FALSE]
    IN  IF can_read_one(s0.rd, "0")
        THEN read_base_specifier(
                 read_base_specifier(
                     read_base_specifier(
                         [s0 EXCEPT !.rd = read(s0.rd),
                                    !.number_builder = Append(@, "0"),
                                    !.has_leading_zero = TRUE],
                         {"x", "X"}, HexDigits),
                     {"b", "B"}, BinDigits),
                 {"o", "O"}, OctDigits)
        ELSE s0

\* The exponent of read_number: b is the sign and the base read, main the
\* main number, [rd, number_builder, err]
read_number_exponent(b, main) ==
        IF main.err # "" THEN main
        ELSE IF Last(main.number_builder) \in {"e", "E"}
        THEN IF can_read_any(main.rd, {"-", "+"})
             THEN LET nb == Append(main.number_builder, peek(main.rd))
                  IN  IF b.has_base_specifier /\ Len(nb) = 4
                      THEN NumSt(read(main.rd), nb,
                                 "Missing digit between base specifier and exponent")
                      ELSE read_number_no_exponent(read(main.rd), nb, b.base_digits,
                                                   FALSE, FALSE)
             ELSE main
        ELSE IF can_read_any(main.rd, {"e", "E"})
        THEN LET rd1 == read(main.rd)
                 nb1 == Append(main.number_builder, peek(main.rd))
                 rd2 == read_any(rd1, {"-", "+"})
                 nb2 == IF can_read_any(rd1, {"-", "+"})
                        THEN Append(nb1, peek(rd1)) ELSE nb1
             IN  read_number_no_exponent(rd2, nb2, b.base_digits, FALSE, FALSE)
        ELSE main

\* [rd, number_builder, err]: on success the Number token's value is
\* number_builder
read_number(rd) ==
    LET b == read_number_base(rd)
    IN  read_number_exponent(b,
            read_number_no_exponent(b.rd, b.number_builder, b.base_digits,
                                    b.has_base_specifier, b.has_leading_zero))

\* number_or_quoteless_string that drops the characters of a malformed number
number_or_quoteless_string_dropping_number(number) ==
    IF number.err = ""
    THEN LET d == detect_quoteless_string(number.rd)
         IN  IF d.found
             THEN read_quoteless_string(d.rd,
                      number.number_builder \o d.whitespace_builder, FALSE)
             ELSE Res(d.rd, Ok(JsonhToken_new("Number", number.number_builder)))
    ELSE read_quoteless_string(number.rd, <<>>, FALSE)

\* read_number_or_quoteless_string after read_number: number is
\* [rd, number_builder, err]
number_or_quoteless_string(number) ==
    IF number.err = ""
    THEN LET d == detect_quoteless_string(number.rd)
         IN  IF d.found
             THEN read_quoteless_string(d.rd,
                      number.number_builder \o d.whitespace_builder, FALSE)
             ELSE Res(d.rd, Ok(JsonhToken_new("Number", number.number_builder)))
    ELSE read_quoteless_string(number.rd, number.number_builder, FALSE)

read_number_or_quoteless_string(rd) == number_or_quoteless_string(read_number(rd))


-----------------------------------------------------------------------------
(* Comments and whitespace.                                                *)

RECURSIVE read_nests_to_the_last(_, _, _)
\* read_nests that reads every '=' there is
read_nests_to_the_last(rd, counter, limit) ==
    IF can_read_one(rd, "=")
    THEN read_nests_to_the_last(read(rd), counter + 1, limit)
    ELSE [rd |-> rd, counter |-> counter]

RECURSIVE read_nests(_, _, _)
\* while (counter < limit) && self.read_one('='): [rd, counter]; no limit
\* when limit < 0
read_nests(rd, counter, limit) ==
    IF (limit < 0 \/ counter < limit) /\ can_read_one(rd, "=")
    THEN read_nests(read(rd), counter + 1, limit)
    ELSE [rd |-> rd, counter |-> counter]

RECURSIVE Repeat(_, _)
Repeat(ch, n) == IF n <= 0 THEN <<>> ELSE <<ch>> \o Repeat(ch, n - 1)

RECURSIVE read_comment_body(_, _, _, _)
\* The loop of read_comment
read_comment_body(rd, block_comment, start_nest_counter, comment_builder) ==
    LET next == peek(rd)
        rd1 == read(rd)
    IN  IF block_comment
        THEN IF next = NoChar
             THEN Res(rd1, Err("Expected end of block comment, got end of input"))
             ELSE IF next = "*"
             THEN LET nests == IF supports_version(rd.options, "V2")
                               THEN read_nests(rd1, 0, start_nest_counter)
                               ELSE [rd |-> rd1, counter |-> 0]
                  IN  IF supports_version(rd.options, "V2")
                         /\ (nests.counter < start_nest_counter
                             \/ peek(nests.rd) # "/")
                      THEN read_comment_body(nests.rd, block_comment,
                               start_nest_counter,
                               Append(comment_builder, "*")
                                   \o Repeat("=", nests.counter))
                      ELSE IF can_read_one(nests.rd, "/")
                      THEN Res(read(nests.rd),
                               Ok(JsonhToken_new("Comment", comment_builder)))
                      ELSE read_comment_body(nests.rd, block_comment,
                               start_nest_counter, Append(comment_builder, next))
             ELSE read_comment_body(rd1, block_comment, start_nest_counter,
                                    Append(comment_builder, next))
        ELSE IF next = NoChar \/ next \in NEWLINE_CHARS
        THEN Res(rd1, Ok(JsonhToken_new("Comment", comment_builder)))
        ELSE read_comment_body(rd1, block_comment, start_nest_counter,
                               Append(comment_builder, next))

read_comment(rd) ==
    IF can_read_one(rd, "#")
    THEN read_comment_body(read(rd), FALSE, 0, <<>>)
    ELSE IF can_read_one(rd, "/")
    THEN LET rd1 == read(rd)
         IN  IF can_read_one(rd1, "/")
             THEN read_comment_body(read(rd1), FALSE, 0, <<>>)
             ELSE IF can_read_one(rd1, "*")
             THEN read_comment_body(read(rd1), TRUE, 0, <<>>)
             ELSE IF supports_version(rd.options, "V2") /\ peek(rd1) = "="
             THEN LET nests == read_nests(rd1, 0, -1)
                  IN  IF ~can_read_one(nests.rd, "*")
                      THEN Res(nests.rd,
                               Err("Expected '*' after start of nesting block comment"))
                      ELSE read_comment_body(read(nests.rd), TRUE,
                                             nests.counter, <<>>)
             ELSE Res(rd1, Err("Unexpected '/'"))
    ELSE Res(rd, Err("Unexpected character"))


-----------------------------------------------------------------------------
(* Quoted strings.                                                         *)

RECURSIVE pass1(_, _)
\* Pass 1: count leading whitespace -> newline:
\* [has_leading_whitespace_newline, leading_whitespace_newline_counter]
pass1(chars, index) ==
    IF index >= Len(chars)
    THEN [has_leading_whitespace_newline |-> FALSE,
          leading_whitespace_newline_counter |-> 0]
    ELSE LET next == chars[index + 1]
         IN  IF next \in NEWLINE_CHARS
             THEN LET joined == IF next = "\r" /\ index + 1 < Len(chars)
                                   /\ chars[index + 2] = "\n"
                                THEN index + 1 ELSE index
                  IN  [has_leading_whitespace_newline |-> TRUE,
                       leading_whitespace_newline_counter |-> joined + 1]
             ELSE IF next \notin WHITESPACE_CHARS
             THEN [has_leading_whitespace_newline |-> FALSE,
                   leading_whitespace_newline_counter |-> 0]
             ELSE pass1(chars, index + 1)

RECURSIVE pass2(_, _, _, _, _)
\* Pass 2: count trailing newline -> whitespace:
\* [has_trailing_newline_whitespace, last_newline_index,
\*  trailing_whitespace_counter]
pass2(chars, index2, has_trailing_newline_whitespace, last_newline_index, trailing_whitespace_counter) ==
    IF index2 >= Len(chars)
    THEN [has_trailing_newline_whitespace |-> has_trailing_newline_whitespace,
          last_newline_index |-> last_newline_index,
          trailing_whitespace_counter |-> trailing_whitespace_counter]
    ELSE LET next == chars[index2 + 1]
         IN  IF next \in NEWLINE_CHARS
             THEN pass2(chars,
                        IF next = "\r" /\ index2 + 1 < Len(chars)
                           /\ chars[index2 + 2] = "\n"
                        THEN index2 + 2 ELSE index2 + 1,
                        TRUE, index2, 0)
             ELSE IF next \in WHITESPACE_CHARS
             THEN pass2(chars, index2 + 1, has_trailing_newline_whitespace,
                        last_newline_index, trailing_whitespace_counter + 1)
             ELSE pass2(chars, index2 + 1, FALSE, last_newline_index, 0)

\* Vec::drain(from..to) on zero-based indices; the caller checks the range
Drain(chars, from, to) ==
    SubSeq(chars, 1, from) \o SubSeq(chars, to + 1, Len(chars))

RECURSIVE pass5(_, _, _, _, _)
\* Pass 5: strip line-leading whitespace
pass5(chars, index3, is_line_leading_whitespace, line_leading_whitespace_counter, trailing_whitespace_counter) ==
    IF index3 >= Len(chars) THEN chars
    ELSE LET next == chars[index3 + 1]
         IN  IF next \in NEWLINE_CHARS
             THEN pass5(chars, index3 + 1, TRUE, 0, trailing_whitespace_counter)
             ELSE IF next \in WHITESPACE_CHARS
             THEN IF is_line_leading_whitespace
                  THEN IF line_leading_whitespace_counter + 1
                          = trailing_whitespace_counter
                       THEN pass5(Drain(chars,
                                        index3 + 1 - (line_leading_whitespace_counter + 1),
                                        index3 + 1),
                                  index3 - (line_leading_whitespace_counter + 1) + 1,
                                  FALSE, line_leading_whitespace_counter + 1,
                                  trailing_whitespace_counter)
                       ELSE pass5(chars, index3 + 1, TRUE,
                                  line_leading_whitespace_counter + 1,
                                  trailing_whitespace_counter)
                  ELSE pass5(chars, index3 + 1, FALSE,
                             line_leading_whitespace_counter,
                             trailing_whitespace_counter)
             ELSE IF is_line_leading_whitespace
             THEN pass5(Drain(chars, index3 - line_leading_whitespace_counter, index3),
                        index3 - line_leading_whitespace_counter + 1,
                        FALSE, line_leading_whitespace_counter,
                        trailing_whitespace_counter)
             ELSE pass5(chars, index3 + 1, FALSE, line_leading_whitespace_counter,
                        trailing_whitespace_counter)

\* strip_multi_quoted that goes on when pass 2 failed
strip_multi_quoted_after_failed_pass2(string_builder_chars) ==
    LET p1 == pass1(string_builder_chars, 0)
        p2 == pass2(string_builder_chars, 0, FALSE, 0, 0)
        after3 == Drain(string_builder_chars, p2.last_newline_index,
                        Len(string_builder_chars))
        after4 == Drain(after3, 0, p1.leading_whitespace_newline_counter)
    IN  IF ~p1.has_leading_whitespace_newline
        THEN [panic |-> FALSE, chars |-> string_builder_chars]
        ELSE IF p1.leading_whitespace_newline_counter > Len(after3)
        THEN [panic |-> TRUE, chars |-> after3]
        ELSE IF p2.trailing_whitespace_counter > 0
        THEN [panic |-> FALSE,
              chars |-> pass5(after4, 0, TRUE, 0, p2.trailing_whitespace_counter)]
        ELSE [panic |-> FALSE, chars |-> after4]

\* The indent stripping of a multi-quoted string: [panic, chars]
strip_multi_quoted(string_builder_chars) ==
    LET p1 == pass1(string_builder_chars, 0)
        p2 == pass2(string_builder_chars, 0, FALSE, 0, 0)
        after3 == Drain(string_builder_chars, p2.last_newline_index,
                        Len(string_builder_chars))
        after4 == Drain(after3, 0, p1.leading_whitespace_newline_counter)
    IN  IF ~p1.has_leading_whitespace_newline
        THEN [panic |-> FALSE, chars |-> string_builder_chars]
        ELSE IF ~p2.has_trailing_newline_whitespace
        THEN [panic |-> FALSE, chars |-> string_builder_chars]
        ELSE IF p1.leading_whitespace_newline_counter > Len(after3)
        THEN [panic |-> TRUE, chars |-> after3]
        ELSE IF p2.trailing_whitespace_counter > 0
        THEN [panic |-> FALSE,
              chars |-> pass5(after4, 0, TRUE, 0, p2.trailing_whitespace_counter)]
        ELSE [panic |-> FALSE, chars |-> after4]

RECURSIVE read_start_quotes(_, _, _)
\* while self.read_one(start_quote): [rd, counter]
read_start_quotes(rd, start_quote, counter) ==
    IF can_read_one(rd, start_quote)
    THEN read_start_quotes(read(rd), start_quote, counter + 1)
    ELSE [rd |-> rd, counter |-> counter]

RECURSIVE read_string_chars(_, _, _, _, _, _)
\* The escape sequence esc, [rd, err, chars], read in a quoted string
string_escape(esc, start_quote, start_quote_counter, end_quote_counter, string_builder, is_verbatim) ==
    IF esc.err # ""
    THEN [rd |-> esc.rd, err |-> esc.err, string_builder |-> string_builder]
    ELSE read_string_chars(esc.rd, start_quote, start_quote_counter,
                           end_quote_counter, string_builder \o esc.chars,
                           is_verbatim)

\* The loop of read_string: [rd, err, string_builder]
read_string_chars(rd, start_quote, start_quote_counter, end_quote_counter, string_builder, is_verbatim) ==
    LET next == peek(rd)
        rd1 == read(rd)
        flushed == IF next # start_quote
                   THEN string_builder \o Repeat(start_quote, end_quote_counter)
                   ELSE string_builder
        pending == IF next # start_quote THEN 0 ELSE end_quote_counter
    IN  IF next = NoChar
        THEN [rd |-> rd1, err |-> "Expected end of string, got end of input",
              string_builder |-> string_builder]
        ELSE IF next = start_quote
        THEN IF pending + 1 = start_quote_counter
             THEN [rd |-> rd1, err |-> "", string_builder |-> flushed]
             ELSE read_string_chars(rd1, start_quote, start_quote_counter,
                                    pending + 1, flushed, is_verbatim)
        ELSE IF next = "\\"
        THEN IF is_verbatim
             THEN read_string_chars(rd1, start_quote, start_quote_counter,
                                    pending, Append(flushed, next), is_verbatim)
             ELSE string_escape(read_escape_sequence(rd1, NoSurrogate),
                                start_quote, start_quote_counter, pending,
                                flushed, is_verbatim)
        ELSE read_string_chars(rd1, start_quote, start_quote_counter, pending,
                               Append(flushed, next), is_verbatim)

\* read_string after its loop: quotes is [rd, counter], body is
\* [rd, err, string_builder]
quoted_string_token(quotes, body) ==
    IF quotes.counter = 2
    THEN Res(quotes.rd, Ok(JsonhToken_new("String", <<>>)))
    ELSE IF body.err # "" THEN Res(body.rd, Err(body.err))
    ELSE IF quotes.counter > 1
    THEN LET stripped == strip_multi_quoted(body.string_builder)
         IN  IF stripped.panic
             THEN Res(body.rd, Panic("drain range out of bounds"))
             ELSE Res(body.rd, Ok(JsonhToken_new("String", stripped.chars)))
    ELSE Res(body.rd, Ok(JsonhToken_new("String", body.string_builder)))

\* read_string after its start quotes are counted
quoted_string(start_quote, quotes, is_verbatim) ==
    quoted_string_token(quotes,
        read_string_chars(quotes.rd, start_quote, quotes.counter, 0, <<>>,
                          is_verbatim))

\* read_string that decodes the escape sequences of a verbatim string
read_string_decoding_verbatim(rd) ==
    LET is_verbatim == supports_version(rd.options, "V2") /\ can_read_one(rd, "@")
        rd1 == IF is_verbatim THEN read(rd) ELSE rd
        next == peek(rd1)
    IN  IF is_verbatim /\ (next = NoChar \/ next \in {"#", "/"}
                           \/ next \in WHITESPACE_CHARS)
        THEN Res(rd1, Err("Expected string to immediately follow verbatim symbol"))
        ELSE IF ~can_read_any(rd1, {"\"", "'"})
        THEN read_quoteless_string(rd1, <<>>, FALSE)
        ELSE quoted_string(peek(rd1),
                           read_start_quotes(read(rd1), peek(rd1), 1), FALSE)

read_string(rd) ==
    LET is_verbatim == supports_version(rd.options, "V2") /\ can_read_one(rd, "@")
        rd1 == IF is_verbatim THEN read(rd) ELSE rd
        next == peek(rd1)
    IN  IF is_verbatim /\ (next = NoChar \/ next \in {"#", "/"}
                           \/ next \in WHITESPACE_CHARS)
        THEN Res(rd1, Err("Expected string to immediately follow verbatim symbol"))
        ELSE IF ~can_read_any(rd1, {"\"", "'"})
        THEN read_quoteless_string(rd1, <<>>, is_verbatim)
        ELSE quoted_string(peek(rd1),
                           read_start_quotes(read(rd1), peek(rd1), 1), is_verbatim)

read_primitive_element(rd) ==
    LET next == peek(rd)
    IN  IF next = NoChar
        THEN Res(rd, Err("Expected primitive element, got end of input"))
        ELSE IF Contains(DecDigits, next) \/ next \in {"-", "+", "."}
        THEN read_number_or_quoteless_string(rd)
        ELSE IF next \in {"\"", "'"}
                \/ (supports_version(rd.options, "V2") /\ next = "@")
        THEN read_string(rd)
        ELSE read_quoteless_string(rd, <<>>, FALSE)


-----------------------------------------------------------------------------
(* JsonhNumberParser.  An f64 is [cls, n, d, xn, xd]: the finite value     *)
(* (n / d) * 10^(xn / xd), or a non-finite value (an infinity or a NaN).   *)
(* Rounding to 53 bits is not modelled; a magnitude beyond the model's     *)
(* integers is clamped to MaxInt.                                          *)

F64(n, d, xn, xd) == [cls |-> "finite", n |-> n, d |-> d, xn |-> xn, xd |-> xd]
NonFinite == [cls |-> "nonfinite", n |-> 0, d |-> 1, xn |-> 0, xd |-> 1]
NumOk(value) == [err |-> "", value |-> value]
NumErr(msg) == [err |-> msg, value |-> NonFinite]

MaxInt == 2147483646 + 1
\* acc * base + digit, clamped
MulAdd(acc, base, digit) ==
    IF acc > (MaxInt - digit) \div base THEN MaxInt ELSE acc * base + digit
RECURSIVE Pow(_, _)
Pow(b, k) == IF k <= 0 THEN 1 ELSE MulAdd(Pow(b, k - 1), b, 0)
Abs(x) == IF x < 0 THEN -x ELSE x
RECURSIVE NumDigits(_)
\* The number of decimal digits of a natural number, 0 for 0
NumDigits(q) == IF q = 0 THEN 0 ELSE 1 + NumDigits(q \div 10)

\* The largest power of ten folded into the numerator (the model's
\* integers are 32 bits wide).
MaxFoldedExponent == 6
MaxCommentLen == 4
\* f64::MAX is 1.7976931348623157e308
F64_MAX_10_EXP == 308
F64_MAX_MILLIS == 1798

RECURSIVE RemoveChar(_, _)
\* String::replace(ch, "")
RemoveChar(s, ch) == IF s = <<>> THEN <<>>
                     ELSE IF Head(s) = ch THEN RemoveChar(Tail(s), ch)
                     ELSE <<Head(s)>> \o RemoveChar(Tail(s), ch)

StartsWith(s, prefix) ==
    Len(s) >= Len(prefix) /\ SubSeq(s, 1, Len(prefix)) = prefix
From(s, k) == SubSeq(s, k + 1, Len(s))

\* mantissa * 10f64.powf(exponent)
mul_pow10(m, x) ==
    IF m.cls # "finite" \/ x.cls # "finite" THEN NonFinite
    ELSE IF x.xn # 0 \/ x.n % x.d # 0
    THEN \* a fractional exponent: kept as it is
         IF x.n >= (F64_MAX_10_EXP + 1) * x.d THEN NonFinite
         ELSE F64(m.n, m.d, x.n, x.d)
    ELSE LET k == x.n \div x.d
             whole == Abs(m.n) \div m.d
             digits == NumDigits(whole)
             \* the first four digits of the mantissa
             shift == Pow(10, 4 - digits)
             millis == IF digits >= 4 THEN whole \div Pow(10, digits - 4)
                       ELSE whole * shift
                            + (IF m.d >= shift
                               THEN (Abs(m.n) % m.d) \div (m.d \div shift)
                               ELSE ((Abs(m.n) % m.d) * shift) \div m.d)
         IN  IF k > F64_MAX_10_EXP THEN NonFinite
             ELSE IF m.n # 0 /\ k + digits - 1 > F64_MAX_10_EXP THEN NonFinite
             ELSE IF m.n # 0 /\ k + digits - 1 = F64_MAX_10_EXP
                     /\ millis >= F64_MAX_MILLIS
             THEN NonFinite
             ELSE IF m.n = 0 THEN F64(0, 1, 0, 1)
             ELSE IF k >= 0 /\ k <= MaxFoldedExponent
                     /\ Abs(m.n) <= MaxInt \div Pow(10, k)
             THEN F64(m.n * Pow(10, k), m.d, 0, 1)
             ELSE IF k < 0 /\ -k <= MaxFoldedExponent
                     /\ m.d <= MaxInt \div Pow(10, -k)
             THEN F64(m.n, m.d * Pow(10, -k), 0, 1)
             ELSE F64(m.n, m.d, k, 1)

Negate(v) == IF v.cls = "finite" THEN [v EXCEPT !.n = -v.n] ELSE v

IsDecDigits(s) == \A i \in 1..Len(s) : Contains(DecDigits, s[i])
RECURSIVE DecValue(_, _)
DecValue(s, acc) == IF s = <<>> THEN acc
                    ELSE DecValue(Tail(s), MulAdd(acc, 10, Find(DecDigits, Head(s))))
Lower(s) == [i \in 1..Len(s) |-> to_ascii_lowercase(s[i])]
FirstIndex(s, chars) ==
    IF \E i \in 1..Len(s) : s[i] \in chars
    THEN CHOOSE i \in 1..Len(s) : s[i] \in chars /\ \A j \in 1..(i - 1) : s[j] \notin chars
    ELSE 0

\* <f64 as FromStr>::from_str without its exponent: digits with at most
\* one '.', at least one digit
rust_parse_decimal(s) ==
    LET dot == FirstIndex(s, {"."})
        whole == IF dot = 0 THEN s ELSE SubSeq(s, 1, dot - 1)
        fraction == IF dot = 0 THEN <<>> ELSE From(s, dot)
    IN  IF ~IsDecDigits(whole) \/ ~IsDecDigits(fraction) \/ whole \o fraction = <<>>
        THEN NumErr("Error parsing number from string")
        ELSE NumOk(F64(DecValue(whole \o fraction, 0), Pow(10, Len(fraction)), 0, 1))

\* The exponent of <f64 as FromStr>::from_str: mantissa is the number read
\* before the exponent character, exp_part the text after it
rust_parse_exponent(mantissa, negative, has_exponent, exp_part) ==
    LET exp_negative == exp_part # <<>> /\ Head(exp_part) = "-"
        exp_digits == IF exp_part # <<>> /\ Head(exp_part) \in {"-", "+"}
                      THEN Tail(exp_part) ELSE exp_part
        signed(v) == IF negative THEN Negate(v) ELSE v
    IN  IF mantissa.err # "" THEN mantissa
        ELSE IF ~has_exponent THEN NumOk(signed(mantissa.value))
        ELSE IF exp_digits = <<>> \/ ~IsDecDigits(exp_digits)
        THEN NumErr("Error parsing number from string")
        ELSE IF mantissa.value.n = 0 THEN NumOk(signed(mantissa.value))
        ELSE NumOk(signed(mul_pow10(mantissa.value,
                 F64(IF exp_negative THEN -DecValue(exp_digits, 0)
                     ELSE DecValue(exp_digits, 0), 1, 0, 1))))

\* <f64 as FromStr>::from_str: [sign] (inf | infinity | nan | number [exponent])
rust_parse_f64(digits) ==
    LET negative == digits # <<>> /\ Head(digits) = "-"
        s == IF digits # <<>> /\ Head(digits) \in {"-", "+"} THEN Tail(digits)
             ELSE digits
        e == FirstIndex(s, {"e", "E"})
    IN  IF Lower(s) \in {<<"i", "n", "f">>, <<"n", "a", "n">>,
                         <<"i", "n", "f", "i", "n", "i", "t", "y">>}
        THEN NumOk(NonFinite)
        ELSE rust_parse_exponent(
                 rust_parse_decimal(IF e = 0 THEN s ELSE SubSeq(s, 1, e - 1)),
                 negative, e # 0, From(s, e))

RECURSIVE whole_number_value(_, _, _)
\* The digit loop of parse_whole_number: -1 for an invalid digit
whole_number_value(digits, base_digits, integer) ==
    IF digits = <<>> THEN integer
    ELSE LET digit_int == Find(base_digits, to_ascii_lowercase(Head(digits)))
         IN  IF digit_int < 0 THEN -1
             ELSE whole_number_value(Tail(digits), base_digits,
                                     MulAdd(integer, Len(base_digits), digit_int))

parse_whole_number(digits, base_digits) ==
    IF base_digits = DecDigits THEN rust_parse_f64(digits)
    ELSE LET negative == digits # <<>> /\ Head(digits) = "-"
             rest == IF digits # <<>> /\ Head(digits) \in {"-", "+"}
                     THEN Tail(digits) ELSE digits
             integer == whole_number_value(rest, base_digits, 0)
         IN  IF integer < 0 THEN NumErr("Invalid digit")
             ELSE NumOk(F64(IF negative THEN -integer ELSE integer, 1, 0, 1))

\* parse_fractional_number after its whole part is parsed
add_fraction(whole, fraction_part, base_digits) ==
    LET \* the columns of the fraction, summed least significant first
        fraction == whole_number_value(fraction_part, base_digits, 0)
        scale == Pow(Len(base_digits), Len(fraction_part))
    IN  IF whole.err # "" THEN whole
        ELSE IF fraction < 0 THEN NumErr("Invalid digit")
        ELSE NumOk(F64(MulAdd(whole.value.n, scale, fraction), scale, 0, 1))

parse_fractional_number(digits, base_digits) ==
    IF base_digits = DecDigits THEN rust_parse_f64(digits)
    ELSE LET dot_index == FirstIndex(digits, {"."})
         IN  IF dot_index = 0 THEN parse_whole_number(digits, base_digits)
             ELSE add_fraction(
                      parse_whole_number(SubSeq(digits, 1, dot_index - 1),
                                         base_digits),
                      From(digits, dot_index), base_digits)

\* exponent_index that takes the first e or E in every base
exponent_index_of_first_e(digits, base_digits) ==
    FirstIndex(digits, {"e", "E"})

\* The index (from 1) of the exponent character, or 0
exponent_index(digits, base_digits) ==
    IF Contains(base_digits, "e")
    THEN LET marks == {i \in 1..Len(digits) :
                          /\ digits[i] \in {"e", "E"}
                          /\ i < Len(digits)
                          /\ digits[i + 1] \in {"+", "-"}}
         IN  IF marks = {} THEN 0
             ELSE CHOOSE i \in marks : \A j \in marks : i <= j
    ELSE FirstIndex(digits, {"e", "E"})

\* Multiply mantissa by 10 ^ exponent, once both are parsed
apply_exponent(mantissa, exponent) ==
    IF mantissa.err # "" THEN mantissa
    ELSE IF exponent.err # "" THEN exponent
    ELSE NumOk(mul_pow10(mantissa.value, exponent.value))

parse_fractional_number_with_exponent(digits, base_digits) ==
    LET index == exponent_index(digits, base_digits)
    IN  IF index = 0 THEN parse_fractional_number(digits, base_digits)
        ELSE apply_exponent(
                 parse_fractional_number(SubSeq(digits, 1, index - 1), base_digits),
                 parse_fractional_number(From(digits, index), base_digits))

\* Apply sign
apply_sign(number, negative) ==
    IF number.err # "" THEN number
    ELSE IF negative THEN NumOk(Negate(number.value))
    ELSE number

JsonhNumberParser_parse(jsonh_number) ==
    LET cleaned == RemoveChar(jsonh_number, "_")
        negative == cleaned # <<>> /\ Head(cleaned) = "-"
        digits == IF cleaned # <<>> /\ Head(cleaned) \in {"-", "+"}
                  THEN Tail(cleaned) ELSE cleaned
        base_digits == IF StartsWith(digits, <<"0", "x">>) THEN HexDigits
                       ELSE IF StartsWith(digits, <<"0", "b">>) THEN BinDigits
                       ELSE IF StartsWith(digits, <<"0", "o">>) THEN OctDigits
                       ELSE DecDigits
    IN  apply_sign(parse_fractional_number_with_exponent(
                       IF base_digits = DecDigits THEN digits ELSE From(digits, 2),
                       base_digits),
                   negative)


-----------------------------------------------------------------------------
(* The token stream.  Each generator function of the reader (a LocalIter)  *)
(* is a frame [fn, pc, in_loop, tokens, has_tokens, token] on 'stack'; the *)
(* operator named after the function runs the frame on top from its pc to  *)
(* its next call, yield or return.  in_loop holds while the function       *)
(* iterates a generator it called, and pc is then where it goes on when    *)
(* that generator ends.  pc "return" is a point where the function ends.   *)

Frame(fn) == [fn |-> fn, pc |-> "start", in_loop |-> FALSE, tokens |-> <<>>,
              has_tokens |-> FALSE, token |-> NoToken]
FrameWith(fn, tokens, has_tokens, token) ==
    [fn |-> fn, pc |-> "start", in_loop |-> FALSE, tokens |-> tokens,
     has_tokens |-> has_tokens, token |-> token]

Top(c) == c.stack[Len(c.stack)]
SetPc(c, pc) == [c EXCEPT !.stack[Len(c.stack)].pc = pc]
\* for x in self.callee(..) { .. }: the caller goes on at pc when callee ends
Call(c, pc, callee) ==
    [c EXCEPT !.stack = Append([@ EXCEPT ![Len(@)].pc = pc,
                                         ![Len(@)].in_loop = TRUE], callee)]
\* The generator on top ends: the loop of its caller ends with it
Return(c) ==
    LET rest == SubSeq(c.stack, 1, Len(c.stack) - 1)
    IN  [c EXCEPT !.stack = IF rest = <<>> THEN rest
                            ELSE [rest EXCEPT ![Len(rest)].in_loop = FALSE]]

\* for_each without the return after an error is yielded
for_each_without_return(frame, item) ==
    IF ~is_err(item)
       /\ frame.fn = "read_braceless_object_or_end_of_primitive"
       /\ frame.pc = "colon"
    THEN [frame |-> [frame EXCEPT !.tokens = Append(@, item.token)],
          item |-> NoItem]
    ELSE [frame |-> frame, item |-> item]

\* What the for loop of a calling function does with an item its callee
\* yields: [frame, item], item = NoItem when the loop keeps it
for_each(frame, item) ==
    IF is_err(item)
    THEN \* y.ret(item).await; return;
         [frame |-> [frame EXCEPT !.pc = "return", !.in_loop = FALSE],
          item |-> item]
    ELSE IF frame.fn = "read_braceless_object_or_end_of_primitive"
            /\ frame.pc = "colon"
    THEN \* property_name_tokens.push(item.unwrap());
         [frame |-> [frame EXCEPT !.tokens = Append(@, item.token)],
          item |-> NoItem]
    ELSE \* y.ret(item).await;
         [frame |-> frame, item |-> item]

RECURSIVE PassUp(_, _, _)
\* The item yielded by frame i + 1 passes through the loops of frames i..1
PassUp(stack, i, item) ==
    IF i = 0 \/ item = NoItem THEN [stack |-> stack, item |-> item]
    ELSE LET r == for_each(stack[i], item)
         IN  PassUp([stack EXCEPT ![i] = r.frame], i - 1, r.item)

\* y.ret(item).await in the frame on top, which goes on at pc
Yield(c, item, pc) ==
    IF item.kind = "Panic"
    THEN [c EXCEPT !.stack = <<>>, !.out = item]
    ELSE LET up == PassUp(SetPc(c, pc).stack, Len(c.stack) - 1, item)
         IN  [c EXCEPT !.stack = up.stack, !.out = up.item]

\* enter_depth with the check written as depth >= max_depth
enter_depth_at_max_depth(c, pc) ==
    LET c1 == [c EXCEPT !.depth = @ + 1]
    IN  IF c1.depth >= c1.options.max_depth
        THEN Yield(c1, Err("Exceeded max depth"), "return")
        ELSE SetPc(c1, pc)

\* self.depth += 1 and the check against max_depth
enter_depth(c, pc) ==
    LET c1 == [c EXCEPT !.depth = @ + 1]
    IN  IF c1.depth > c1.options.max_depth
        THEN Yield(c1, Err("Exceeded max depth"), "return")
        ELSE SetPc(c1, pc)

\* The comment read is yielded: an error ends read_comments_and_whitespace,
\* a comment starts its loop again
yield_comment(comment_result) ==
    IF is_err(comment_result.item)
    THEN Yield(comment_result.rd, comment_result.item, "return")
    ELSE Yield(comment_result.rd, comment_result.item, "start")

read_comments_and_whitespace(c) ==
    LET c1 == read_whitespace(c)
    IN  IF peek(c1) \in {"#", "/"}
        THEN yield_comment(read_comment(c1))
        ELSE Return(c1)

read_end_of_elements(c) ==
    CASE Top(c).pc = "start" -> Call(c, "peek", Frame("read_comments_and_whitespace"))
      [] Top(c).pc = "peek" ->
            IF peek(c) = NoChar
            THEN Yield(c, Err("Expected end of elements"), "return")
            ELSE Return(c)

\* read_element after read_primitive_element: an error is yielded, a
\* token goes to read_braceless_object_or_end_of_primitive
primitive_element(token_result) ==
    IF ~is_ok(token_result.item)
    THEN Yield(token_result.rd, token_result.item, "return")
    ELSE Call(token_result.rd, "return",
              FrameWith("read_braceless_object_or_end_of_primitive",
                        <<>>, FALSE, token_result.item.token))

read_element(c) ==
    CASE Top(c).pc = "start" -> Call(c, "peek", Frame("read_comments_and_whitespace"))
      [] Top(c).pc = "peek" ->
            IF peek(c) = NoChar
            THEN Yield(c, Err("Expected token, got end of input"), "return")
            ELSE IF peek(c) = "{" THEN Call(c, "return", Frame("read_object"))
            ELSE IF peek(c) = "[" THEN Call(c, "return", Frame("read_array"))
            ELSE primitive_element(read_primitive_element(c))

\* read_object that takes no account of incomplete_inputs
read_object_of_complete_inputs(c) ==
    CASE Top(c).pc = "start" ->
            IF ~can_read_one(c, "{")
            THEN Call(c, "return", Frame("read_braceless_object"))
            ELSE Yield(read(c), Ok(JsonhToken_new_empty("StartObject")), "depth")
      [] Top(c).pc = "depth" -> enter_depth(c, "loop")
      [] Top(c).pc = "loop" -> Call(c, "peek", Frame("read_comments_and_whitespace"))
      [] Top(c).pc = "peek" ->
            IF peek(c) = NoChar
            THEN Yield(c, Err("Expected '}' to end object, got end of input"),
                       "return")
            ELSE IF peek(c) = "}"
            THEN Yield([read(c) EXCEPT !.depth = @ - 1],
                       Ok(JsonhToken_new_empty("EndObject")), "return")
            ELSE Call(c, "loop", Frame("read_property"))

read_object(c) ==
    CASE Top(c).pc = "start" ->
            IF ~can_read_one(c, "{")
            THEN Call(c, "return", Frame("read_braceless_object"))
            ELSE Yield(read(c), Ok(JsonhToken_new_empty("StartObject")), "depth")
      [] Top(c).pc = "depth" -> enter_depth(c, "loop")
      [] Top(c).pc = "loop" -> Call(c, "peek", Frame("read_comments_and_whitespace"))
      [] Top(c).pc = "peek" ->
            IF peek(c) = NoChar
            THEN IF c.options.incomplete_inputs
                 THEN Yield([c EXCEPT !.depth = @ - 1],
                            Ok(JsonhToken_new_empty("EndObject")), "return")
                 ELSE Yield(c, Err("Expected '}' to end object, got end of input"),
                            "return")
            ELSE IF peek(c) = "}"
            THEN Yield([read(c) EXCEPT !.depth = @ - 1],
                       Ok(JsonhToken_new_empty("EndObject")), "return")
            ELSE Call(c, "loop", Frame("read_property"))

\* read_braceless_object without self.depth -= 1 at the end of input
read_braceless_object_keeping_depth(c) ==
    CASE Top(c).pc = "start" ->
            Yield(c, Ok(JsonhToken_new_empty("StartObject")), "depth")
      [] Top(c).pc = "depth" -> enter_depth(c, "initial")
      [] Top(c).pc = "initial" ->
            IF Top(c).has_tokens
            THEN Call(c, "loop", FrameWith("read_property", Top(c).tokens, TRUE, NoToken))
            ELSE SetPc(c, "loop")
      [] Top(c).pc = "loop" -> Call(c, "peek", Frame("read_comments_and_whitespace"))
      [] Top(c).pc = "peek" ->
            IF peek(c) = NoChar
            THEN Yield(c, Ok(JsonhToken_new_empty("EndObject")), "return")
            ELSE Call(c, "loop", Frame("read_property"))

read_braceless_object(c) ==
    CASE Top(c).pc = "start" ->
            Yield(c, Ok(JsonhToken_new_empty("StartObject")), "depth")
      [] Top(c).pc = "depth" -> enter_depth(c, "initial")
      [] Top(c).pc = "initial" ->
            IF Top(c).has_tokens
            THEN Call(c, "loop", FrameWith("read_property", Top(c).tokens, TRUE, NoToken))
            ELSE SetPc(c, "loop")
      [] Top(c).pc = "loop" -> Call(c, "peek", Frame("read_comments_and_whitespace"))
      [] Top(c).pc = "peek" ->
            IF peek(c) = NoChar
            THEN Yield([c EXCEPT !.depth = @ - 1],
                       Ok(JsonhToken_new_empty("EndObject")), "return")
            ELSE Call(c, "loop", Frame("read_property"))

\* read_braceless_object_or_end_of_primitive pushing the primitive token
\* itself in place of a PropertyName token
read_braceless_object_or_end_of_primitive_unnamed(c) ==
    CASE Top(c).pc = "start" -> Call(c, "colon", Frame("read_comments_and_whitespace"))
      [] Top(c).pc = "colon" ->
            IF ~can_read_one(c, ":")
            THEN Yield(c, Ok(Top(c).token), "emit")
            ELSE Call(read(c), "return",
                      FrameWith("read_braceless_object",
                                Append(Top(c).tokens, Top(c).token), TRUE, NoToken))
      [] Top(c).pc = "emit" ->
            IF Top(c).tokens = <<>> THEN Return(c)
            ELSE Yield([c EXCEPT !.stack[Len(c.stack)].tokens = Tail(@)],
                       Ok(Head(Top(c).tokens)), "emit")

\* read_braceless_object_or_end_of_primitive that puts the property name in
\* front of the comments it has collected
read_braceless_object_or_end_of_primitive_name_first(c) ==
    CASE Top(c).pc = "start" -> Call(c, "colon", Frame("read_comments_and_whitespace"))
      [] Top(c).pc = "colon" ->
            IF ~can_read_one(c, ":")
            THEN Yield(c, Ok(Top(c).token), "emit")
            ELSE Call(read(c), "return",
                      FrameWith("read_braceless_object",
                                <<JsonhToken_new("PropertyName", Top(c).token.value)>>
                                    \o Top(c).tokens,
                                TRUE, NoToken))
      [] Top(c).pc = "emit" ->
            IF Top(c).tokens = <<>> THEN Return(c)
            ELSE Yield([c EXCEPT !.stack[Len(c.stack)].tokens = Tail(@)],
                       Ok(Head(Top(c).tokens)), "emit")

read_braceless_object_or_end_of_primitive(c) ==
    CASE Top(c).pc = "start" -> Call(c, "colon", Frame("read_comments_and_whitespace"))
      [] Top(c).pc = "colon" ->
            IF ~can_read_one(c, ":")
            THEN Yield(c, Ok(Top(c).token), "emit")
            ELSE Call(read(c), "return",
                      FrameWith("read_braceless_object",
                                Append(Top(c).tokens,
                                       JsonhToken_new("PropertyName", Top(c).token.value)),
                                TRUE, NoToken))
      [] Top(c).pc = "emit" ->
            IF Top(c).tokens = <<>> THEN Return(c)
            ELSE Yield([c EXCEPT !.stack[Len(c.stack)].tokens = Tail(@)],
                       Ok(Head(Top(c).tokens)), "emit")

read_property(c) ==
    CASE Top(c).pc = "start" ->
            IF Top(c).has_tokens THEN SetPc(c, "emit")
            ELSE Call(c, "whitespace", Frame("read_property_name"))
      [] Top(c).pc = "emit" ->
            IF Top(c).tokens = <<>> THEN SetPc(c, "whitespace")
            ELSE Yield([c EXCEPT !.stack[Len(c.stack)].tokens = Tail(@)],
                       Ok(Head(Top(c).tokens)), "emit")
      [] Top(c).pc = "whitespace" ->
            Call(c, "value", Frame("read_comments_and_whitespace"))
      [] Top(c).pc = "value" -> Call(c, "whitespace2", Frame("read_element"))
      [] Top(c).pc = "whitespace2" ->
            Call(c, "comma", Frame("read_comments_and_whitespace"))
      [] Top(c).pc = "comma" -> Return(read_one(c, ","))

\* read_property_name after read_string: an error is yielded, a token is
\* kept until the ':' is read
property_name_string(string_result) ==
    IF ~is_ok(string_result.item)
    THEN Yield(string_result.rd, string_result.item, "return")
    ELSE Call([string_result.rd EXCEPT
                   !.stack[Len(string_result.rd.stack)].token =
                       string_result.item.token],
              "colon", Frame("read_comments_and_whitespace"))

read_property_name(c) ==
    CASE Top(c).pc = "start" ->
            property_name_string(read_string(c))
      [] Top(c).pc = "colon" ->
            IF ~can_read_one(c, ":")
            THEN Yield(c, Err("Expected ':' after property name in object"), "return")
            ELSE Yield(read(c), Ok(JsonhToken_new("PropertyName", Top(c).token.value)),
                       "return")

\* read_array ending an incomplete array the way read_object ends an
\* incomplete object
read_array_ended_as_object(c) ==
    CASE Top(c).pc = "start" ->
            IF ~can_read_one(c, "[")
            THEN Yield(c, Err("Expected '[' to start array"), "return")
            ELSE Yield(read(c), Ok(JsonhToken_new_empty("StartArray")), "depth")
      [] Top(c).pc = "depth" -> enter_depth(c, "loop")
      [] Top(c).pc = "loop" -> Call(c, "peek", Frame("read_comments_and_whitespace"))
      [] Top(c).pc = "peek" ->
            IF peek(c) = NoChar
            THEN IF c.options.incomplete_inputs
                 THEN Yield([c EXCEPT !.depth = @ - 1],
                            Ok(JsonhToken_new_empty("EndObject")), "return")
                 ELSE Yield(c, Err("Expected ']' to end array, got end of input"),
                            "return")
            ELSE IF peek(c) = "]"
            THEN Yield([read(c) EXCEPT !.depth = @ - 1],
                       Ok(JsonhToken_new_empty("EndArray")), "return")
            ELSE Call(c, "loop", Frame("read_item"))

read_array(c) ==
    CASE Top(c).pc = "start" ->
            IF ~can_read_one(c, "[")
            THEN Yield(c, Err("Expected '[' to start array"), "return")
            ELSE Yield(read(c), Ok(JsonhToken_new_empty("StartArray")), "depth")
      [] Top(c).pc = "depth" -> enter_depth(c, "loop")
      [] Top(c).pc = "loop" -> Call(c, "peek", Frame("read_comments_and_whitespace"))
      [] Top(c).pc = "peek" ->
            IF peek(c) = NoChar
            THEN IF c.options.incomplete_inputs
                 THEN Yield([c EXCEPT !.depth = @ - 1],
                            Ok(JsonhToken_new_empty("EndArray")), "return")
                 ELSE Yield(c, Err("Expected ']' to end array, got end of input"),
                            "return")
            ELSE IF peek(c) = "]"
            THEN Yield([read(c) EXCEPT !.depth = @ - 1],
                       Ok(JsonhToken_new_empty("EndArray")), "return")
            ELSE Call(c, "loop", Frame("read_item"))

read_item(c) ==
    CASE Top(c).pc = "start" -> Call(c, "whitespace", Frame("read_element"))
      [] Top(c).pc = "whitespace" ->
            Call(c, "comma", Frame("read_comments_and_whitespace"))
      [] Top(c).pc = "comma" -> Return(read_one(c, ","))

\* One run of the frame on top
Step(c) ==
    LET fn == Top(c).fn
    IN  IF Top(c).pc = "return" THEN Return(c)
        ELSE CASE fn = "read_element" -> read_element(c)
               [] fn = "read_object" -> read_object(c)
               [] fn = "read_braceless_object" -> read_braceless_object(c)
               [] fn = "read_braceless_object_or_end_of_primitive" ->
                      read_braceless_object_or_end_of_primitive(c)
               [] fn = "read_property" -> read_property(c)
               [] fn = "read_property_name" -> read_property_name(c)
               [] fn = "read_array" -> read_array(c)
               [] fn = "read_item" -> read_item(c)
               [] fn = "read_comments_and_whitespace" -> read_comments_and_whitespace(c)
               [] fn = "read_end_of_elements" -> read_end_of_elements(c)

RECURSIVE Run(_)
Run(c) == IF c.out # NoItem \/ c.stack = <<>> THEN c ELSE Run(Step(c))

\* Resuming the stream resumes its outermost generator, which resumes the
\* generator it iterates, and so on: the outermost frame that is not in a
\* loop goes on, and the generators above it are dropped.
Resume(c) ==
    LET running == {i \in 1..Len(c.stack) : ~c.stack[i].in_loop}
        first == CHOOSE i \in running : \A j \in running : i <= j
    IN  IF running = {} THEN c
        ELSE [c EXCEPT !.stack = SubSeq(@, 1, first)]

\* Iterator::next on the stream: out is the item, NoItem at the end
StreamNext(c) == Run(Resume([c EXCEPT !.out = NoItem]))

\* The stream a call of read_element / read_end_of_elements returns
NewStream(c, fn) == [c EXCEPT !.stack = <<Frame(fn)>>, !.out = NoItem]


-----------------------------------------------------------------------------
(* parse_element: the value builder.  A serde_json Value is a record: t   *)
(* is its variant, and the field of that variant holds its content.        *)

EmptyMap == [name \in {} |-> TRUE]
Value(t, bool, text, number, items, map) ==
    [t |-> t, bool |-> bool, text |-> text, number |-> number, items |-> items,
     map |-> map]
ValueNull == Value("Null", FALSE, <<>>, NonFinite, <<>>, EmptyMap)
ValueBool(b) == Value("Bool", b, <<>>, NonFinite, <<>>, EmptyMap)
ValueString(text) == Value("String", FALSE, text, NonFinite, <<>>, EmptyMap)
ValueNumber(number) == Value("Number", FALSE, <<>>, number, <<>>, EmptyMap)
ValueArray(items) == Value("Array", FALSE, <<>>, NonFinite, items, EmptyMap)
\* An object is a function from its property names to their values
ValueObject(map) == Value("Object", FALSE, <<>>, NonFinite, <<>>, map)

None == [some |-> FALSE, value |-> <<>>]
Some(value) == [some |-> TRUE, value |-> value]

ResultOk(value) == [kind |-> "Ok", value |-> value, err |-> ""]
ResultErr(msg) == [kind |-> "Err", value |-> ValueNull, err |-> msg]
ResultPanic(msg) == [kind |-> "Panic", value |-> ValueNull, err |-> msg]
NoResult == [kind |-> "None", value |-> ValueNull, err |-> ""]

\* Number::from_f64: None for a value that is not finite
Number_from_f64(number) == IF number.cls = "finite" THEN Some(number) ELSE None

Builder(elements, name, root, panic) ==
    [current_elements |-> elements, current_property_name |-> name,
     root |-> root, panic |-> panic]

\* submit_element that leaves the property name in place
submit_element_keeping_name(elements, name, element) ==
    IF elements = <<>> THEN Builder(elements, name, TRUE, FALSE)
    ELSE LET last_mut == elements[Len(elements)]
         IN  IF ~name.some
             THEN IF last_mut.t # "Array" THEN Builder(elements, name, FALSE, TRUE)
                  ELSE Builder([elements EXCEPT ![Len(elements)] =
                                    ValueArray(Append(last_mut.items, element))],
                               name, FALSE, FALSE)
             ELSE IF last_mut.t \notin {"Object", "Null"}
             THEN Builder(elements, name, FALSE, TRUE)
             ELSE Builder([elements EXCEPT ![Len(elements)] =
                               ValueObject((name.value :> element)
                                           @@ last_mut.map)],
                          name, FALSE, FALSE)

\* The closure submit_element: root is its return value, panic a failed
\* unwrap or index
submit_element(elements, name, element) ==
    IF elements = <<>> THEN Builder(elements, name, TRUE, FALSE)
    ELSE LET last_mut == elements[Len(elements)]
         IN  IF ~name.some
             THEN IF last_mut.t # "Array" THEN Builder(elements, name, FALSE, TRUE)
                  ELSE Builder([elements EXCEPT ![Len(elements)] =
                                    ValueArray(Append(last_mut.items, element))],
                               name, FALSE, FALSE)
             ELSE IF last_mut.t \notin {"Object", "Null"}
             THEN Builder(elements, name, FALSE, TRUE)
             ELSE Builder([elements EXCEPT ![Len(elements)] =
                               ValueObject((name.value :> element)
                                           @@ last_mut.map)],
                          None, FALSE, FALSE)

\* The closure start_element
start_element(elements, name, element) ==
    LET submitted == submit_element(elements, name, element)
    IN  [submitted EXCEPT !.current_elements = Append(@, element), !.root = FALSE]

\* The element of a Number token, or the error: number is the result of
\* JsonhNumberParser::parse
number_element(number) ==
    IF number.err # "" THEN ResultErr(number.err)
    ELSE IF ~Number_from_f64(number.value).some
    THEN ResultErr("Failed to convert number to JSON number")
    ELSE ResultOk(ValueNumber(number.value))

\* One iteration of the loop of parse_next_element on an Ok token:
\* [current_elements, current_property_name, result]; result is NoResult
\* while the loop goes on
parse_token(elements, name, token) ==
    LET step(b, element) ==
            [current_elements |-> b.current_elements,
             current_property_name |-> b.current_property_name,
             result |-> IF b.panic THEN ResultPanic("called unwrap on a None value")
                        ELSE IF b.root THEN ResultOk(element)
                        ELSE NoResult]
        leaf(element) == step(submit_element(elements, name, element), element)
        stay(res) == [current_elements |-> elements,
                      current_property_name |-> name, result |-> res]
        leaf_or_err(res) == IF res.kind = "Err" THEN stay(res) ELSE leaf(res.value)
    IN  CASE token.json_type = "Null" -> leaf(ValueNull)
          [] token.json_type = "True" -> leaf(ValueBool(TRUE))
          [] token.json_type = "False" -> leaf(ValueBool(FALSE))
          [] token.json_type = "String" -> leaf(ValueString(token.value))
          [] token.json_type = "Number" ->
                leaf_or_err(number_element(JsonhNumberParser_parse(token.value)))
          [] token.json_type = "StartObject" ->
                step(start_element(elements, name, ValueObject(EmptyMap)), ValueNull)
          [] token.json_type = "StartArray" ->
                step(start_element(elements, name, ValueArray(<<>>)), ValueNull)
          [] token.json_type \in {"EndObject", "EndArray"} ->
                IF Len(elements) > 1
                THEN [current_elements |-> SubSeq(elements, 1, Len(elements) - 1),
                      current_property_name |-> name, result |-> NoResult]
                ELSE IF elements = <<>>
                THEN stay(ResultPanic("called unwrap on a None value"))
                ELSE stay(ResultOk(elements[Len(elements)]))
          [] token.json_type = "PropertyName" ->
                [current_elements |-> elements,
                 current_property_name |-> Some(token.value), result |-> NoResult]
          [] token.json_type = "Comment" -> stay(NoResult)
          [] OTHER -> stay(ResultErr("Token type not implemented"))


-----------------------------------------------------------------------------
(* Inputs and options of the model.                                        *)

RECURSIVE Concatenations(_, _)
\* Every text made of at most k of the given pieces
Concatenations(pieces, k) ==
    IF k = 0 THEN {<<>>}
    ELSE LET shorter == Concatenations(pieces, k - 1)
         IN  shorter \cup {text \o piece : text \in shorter, piece \in pieces}

\* Containers, a property name, a quoteless string and a newline
StructurePieces ==
    {<<"[">>, <<"]">>, <<"{">>, <<"}">>, <<"a", ":">>, <<"b">>, <<"\n">>}

StructureInputs == Concatenations(StructurePieces, MaxPieces)

\* Digits, base specifiers, exponent, point, sign, separator and a long
\* run of digits
NumberPieces ==
    {<<"0">>, <<"1">>, <<"x">>, <<"X">>, <<"e">>, <<".">>, <<"-">>, <<"_">>,
     <<"9", "9", "9">>}

NumberInputs == Concatenations(NumberPieces, MaxNumberLen)

\* A first primitive, what separates it from the next character, and the
\* rest of the input
FirstPrimitives ==
    {<<"0">>, <<"n", "u", "l", "l">>, <<"t", "r", "u", "e">>,
     <<"f", "a", "l", "s", "e">>, <<"\"", "a", "\"">>, <<"'", "a", " ", "'">>,
     <<"b">>, <<"1", ".", "5">>}

Separators == {<<>>, <<" ">>, <<"\n">>, <<"/", "*", "c", "*", "/">>,
               <<"#", "c", "\n">>}

Rests == {<<>>, <<":">>, <<":", "b">>, <<":", "b", "\n", "b", ":", "0">>,
          <<":", "[", "b", "]">>, <<",">>, <<"]">>, <<":", "b", "}">>,
          <<"\"", "a", "\"">>}

PrimitiveInputs ==
    {lead \o first \o separator \o rest :
        lead \in {<<>>, <<"\n">>, <<"/", "/", "c", "\n">>, <<"{">>},
        first \in FirstPrimitives, separator \in Separators, rest \in Rests}

\* A number, complete or malformed, the whitespace behind it and what follows
\* on the line
NumberLexemes ==
    {<<"3">>, <<"1", ".", "5">>, <<"0", "x", "1">>, <<"-", "1", "e", "2">>,
     <<"-", ".">>, <<"0", "e">>, <<"0", "_", ".", "0">>, <<"0", ".", "_", "0">>}

Blanks == {<<>>, <<" ">>, <<" ", "\t">>}

Followings ==
    {<<>>, <<"\n", "4">>, <<",">>, <<"]">>, <<"b">>, <<"b", " ">>,
     <<"\n", "4", " ", "5", ",", "6", "]">>, <<"\\">>, <<"\\", "\\", "b">>,
     <<"\\", "n">>, <<"#", "c">>, <<"/", "/", "c">>}

NumberFollowedInputs ==
    {lead \o number \o blanks \o following :
        lead \in {<<>>, <<"[">>}, number \in NumberLexemes, blanks \in Blanks,
        following \in Followings}

\* A string, maybe verbatim, in each quoting style, with escapes in its body
Quotes == {<<>>, <<"\"">>, <<"'">>, <<"\"", "\"", "\"">>}

Bodies ==
    {<<>>, <<" ">>, <<"#">>, <<"\\", "n">>, <<"\\">>, <<"c", "\\", "\\">>,
     <<"n", "u", "l", "l">>, <<"n", "u", "\\", "l", "l">>,
     <<" ", "t", "r", "u", "e", " ">>, <<"f", "a", "l", "s", "e", "\\", "t">>,
     <<"n", "u", "l", "l", "b">>, <<"\\", "n", "b", "\\", "n">>,
     <<"c", "@", "d">>}

Tails == {<<>>, <<",">>, <<"\n">>, <<":", " ", "@", "d", "\\", "\\">>}

StringInputs ==
    {lead \o mark \o quote \o body \o quote \o tail :
        lead \in {<<>>, <<"/", "=", "*", "c", "*", "=", "/">>},
        mark \in {<<>>, <<"@">>}, quote \in Quotes, body \in Bodies,
        tail \in Tails}

\* Texts as sequences of lexemes: a comment or whitespace put between two
\* lexemes, before the first or behind the last is outside every string
Lexemes ==
    {<<<<"[">>, <<"1">>, <<",">>, <<"b">>, <<"]">>>>,
     <<<<"[">>, <<"1">>, <<"\n">>, <<"2">>, <<"]">>>>,
     <<<<"{">>, <<"a">>, <<":">>, <<"\"", "s", " ", "\"">>, <<"}">>>>,
     <<<<"a">>, <<":">>, <<"1">>>>,
     <<<<"[">>, <<"[">>, <<"@", "'", "#", "'">>, <<"]">>>>,
     <<<<"b">>>>}

Gaps ==
    {<<>>, <<" ">>, <<"\n">>, <<"/", "*", "c", "*", "/">>, <<"#", "c", "\n">>}

RECURSIVE WithGap(_, _, _)
\* The text of the lexemes with the gap behind the first i of them
WithGap(lexemes, i, gap) ==
    IF lexemes = <<>> THEN gap
    ELSE IF i = 0 THEN gap \o lexemes[1] \o WithGap(Tail(lexemes), -1, <<>>)
    ELSE lexemes[1] \o WithGap(Tail(lexemes), i - 1, gap)

Chars(str) == [i \in 1..Len(str) |-> SubSeq(str, i, i)]

\* A hex escape sequence that yields a high surrogate, and what follows it
HighSurrogateEscapes ==
    {Chars("\\uD800"), Chars("\\uDBFF"), Chars("\\ud83d"), Chars("\\U0000D83D")}

AfterHighSurrogate ==
    {Chars("\\uDC00"), Chars("\\uDFFF"), Chars("\\udc7d"), Chars("\\U0000DC7D"),
     Chars("\\uDBFF"), Chars("\\uE000"), Chars("\\U0010DC00"), Chars("\\x41"),
     Chars("\\n"), Chars("\\\\"), Chars("\\uDC"), Chars("a"), <<>>}

EscapeInputs ==
    {quote \o high \o low \o tail \o quote :
        quote \in {<<>>, <<"\"">>}, high \in HighSurrogateEscapes,
        low \in AfterHighSurrogate, tail \in {<<>>, <<"a">>}}

\* Literals with a base specifier, and literals with a signed exponent
BaseSpecifiers == {"x", "X", "b", "B", "o", "O"}

BasedLiterals ==
    {<<"0", specifier>> \o digits :
        specifier \in BaseSpecifiers,
        digits \in Concatenations({<<"1">>, <<"7">>, <<"b">>, <<"o">>, <<"e">>,
                                   <<"B">>}, 2) \ {<<>>}}

ExponentLiterals ==
    {sign \o literal :
        sign \in {<<>>, <<"-">>, <<"+">>},
        literal \in {Chars("0x5e3"), Chars("0x5e+3"), Chars("0xEe+2"),
                     Chars("0x5E-1"), Chars("0xe+2"), Chars("0XE+2"), Chars("e+2"),
                     Chars("0oe+2"), Chars("0be+2"), Chars("0x0e+"),
                     Chars("0b0e+_1"), Chars("0b1e+1"), Chars("0o7e-1"),
                     Chars("0xe"), Chars("0xee+1"), Chars("0x_e+2"),
                     Chars("0e+2"), Chars("1e+2"), Chars("0x1e+2 b"),
                     Chars("0xe+2,")}}

\* Quoted strings of lines: a first line, lines and a last line between
\* one or three quotes
FirstLines == {<<>>, <<"\n">>, <<" ", "\n">>, <<"\r", "\n">>, <<"a", "\n">>}

MiddleLines ==
    {<<>>, <<"a">>, <<" ", "a">>, <<" ", " ", "a", " ">>, <<" ", "\n", " ", " ", "a">>,
     <<" ", " ", "a", "\n", " ", "a">>, <<" ", " ", " ", "\r", "\n", "\t", "a">>,
     <<"a", "\n", "\n", " ", "a">>}

LastLines ==
    {<<>>, <<"\n">>, <<"\n", " ">>, <<"\n", " ", "\t">>, <<"\r", "\n", " ">>,
     <<"\n", " ", "a">>, <<" ">>}

LineContents ==
    {first \o middle \o last :
        first \in FirstLines, middle \in MiddleLines, last \in LastLines} \ {<<>>}

LineInputs ==
    {quote \o content \o quote :
        quote \in {<<"\"">>, <<"\"", "\"", "\"">>}, content \in LineContents}

\* Nestable block comments: the start with one or two '=', a text, and the
\* end or no end
NestStarts == {<<"/", "=", "*">>, <<"/", "=", "=", "*">>}

NestEnds == {<<>>, <<"*", "=", "/">>, <<"*", "=", "=", "/", "0">>}

NestInputs ==
    {start \o text \o end :
        start \in NestStarts,
        text \in Concatenations({<<"*">>, <<"=">>, <<"/">>, <<"c">>}, MaxCommentLen)
                   \cup {Chars("/=**=/")},
        end \in NestEnds}

Options(version, parse_single_element, max_depth, incomplete_inputs) ==
    [version |-> version, parse_single_element |-> parse_single_element,
     max_depth |-> max_depth, incomplete_inputs |-> incomplete_inputs]

\* JsonhReader::from_str
from_str(source, options) ==
    [source |-> source, options |-> options, char_counter |-> 0, depth |-> 0,
     stack |-> <<>>, out |-> NoItem]

-----------------------------------------------------------------------------
(* The programs: parse_element on a new reader, a caller that collects the *)
(* stream of read_element, and find_property_value followed by one of the  *)
(* two on the same reader.  yielded holds the items the streams have       *)
(* yielded so far; found is what find_property_value returned.             *)

NotReturned == [returned |-> FALSE, value |-> FALSE]

\* The text a caller parses next, or the text it parsed before and what
\* parse_element_from_str returned for it
NoOther == [input |-> <<>>, result |-> NoResult, parsed |-> TRUE]
Returned(value) == [returned |-> TRUE, value |-> value]

InitWith(inputs, options, m) ==
    /\ input \in inputs
    /\ \E o \in options :
          self = NewStream(from_str(input, o),
                           "read_element")
    /\ mode = m
    /\ phase = IF m = "parse" THEN "parse_next_element" ELSE "read_element"
    /\ yielded = <<>>
    /\ current_elements = <<>>
    /\ current_property_name = None
    /\ result = NoResult
    /\ property_name = <<>>
    /\ current_depth = 0
    /\ found = NotReturned
    /\ other = NoOther

\* parse_element returns next_element, after read_end_of_elements when
\* parse_single_element is set
Finish(c, next_element) ==
    /\ result' = next_element
    /\ IF next_element.kind = "Ok" /\ c.options.parse_single_element
       THEN /\ phase' = "read_end_of_elements"
            /\ self' = NewStream(c, "read_end_of_elements")
       ELSE /\ phase' = "done"
            /\ self' = [c EXCEPT !.stack = <<>>, !.out = NoItem]

\* One iteration of `for token_result in self.read_element()` in
\* parse_next_element
ParseToken ==
    /\ phase = "parse_next_element"
    /\ \E c \in {StreamNext(self)} :
           /\ yielded' = IF c.out = NoItem THEN yielded ELSE Append(yielded, c.out)
           /\ IF c.out = NoItem
              THEN /\ Finish(c, ResultErr("Expected token, got end of input"))
                   /\ UNCHANGED <<current_elements, current_property_name>>
              ELSE IF c.out.kind = "Err"
              THEN /\ Finish(c, ResultErr(c.out.err))
                   /\ UNCHANGED <<current_elements, current_property_name>>
              ELSE IF c.out.kind = "Panic"
              THEN /\ Finish(c, ResultPanic(c.out.err))
                   /\ UNCHANGED <<current_elements, current_property_name>>
              ELSE \E parsed \in {parse_token(current_elements,
                                               current_property_name,
                                               c.out.token)} :
                      /\ current_elements' = parsed.current_elements
                      /\ current_property_name' = parsed.current_property_name
                      /\ IF parsed.result.kind = "None"
                         THEN /\ self' = c
                              /\ UNCHANGED <<phase, result>>
                         ELSE Finish(c, parsed.result)
    /\ UNCHANGED <<input, mode, property_name, current_depth, found, other>>

\* One iteration of `for token_result in self.read_end_of_elements()`
EndOfElements ==
    /\ phase = "read_end_of_elements"
    /\ \E c \in {StreamNext(self)} :
           /\ yielded' = IF c.out = NoItem THEN yielded ELSE Append(yielded, c.out)
           /\ IF c.out = NoItem
              THEN /\ phase' = "done"
                   /\ self' = c
                   /\ UNCHANGED result
              ELSE IF c.out.kind = "Err"
              THEN /\ phase' = "done"
                   /\ self' = [c EXCEPT !.stack = <<>>, !.out = NoItem]
                   /\ result' = ResultErr(c.out.err)
              ELSE /\ self' = c
                   /\ UNCHANGED <<phase, result>>
    /\ UNCHANGED <<input, mode, current_elements, current_property_name,
                   property_name, current_depth, found, other>>

\* One Iterator::next of a caller that collects read_element()
NextToken ==
    /\ phase = "read_element"
    /\ \E c \in {StreamNext(self)} :
           /\ self' = c
           /\ yielded' = IF c.out = NoItem THEN yielded ELSE Append(yielded, c.out)
           /\ phase' = IF c.out = NoItem \/ c.out.kind = "Panic" THEN "done"
                       ELSE phase
    /\ UNCHANGED <<input, mode, current_elements, current_property_name, result,
                   property_name, current_depth, found, other>>

\* parse_element_from_str(..) of one text, by a caller that then parses a
\* text with the same lexemes
InitCompare(lexemes, gaps, options) ==
    /\ \E l \in lexemes, i, j \in 0..5, g, h \in gaps :
          /\ i <= Len(l) /\ j <= Len(l)
          /\ input = WithGap(l, i, g)
          /\ other = [input |-> WithGap(l, j, h), result |-> NoResult,
                      parsed |-> FALSE]
    /\ \E o \in options :
          self = NewStream(from_str(input, o), "read_element")
    /\ mode = "parse"
    /\ phase = "parse_next_element"
    /\ yielded = <<>>
    /\ current_elements = <<>>
    /\ current_property_name = None
    /\ result = NoResult
    /\ property_name = <<>>
    /\ current_depth = 0
    /\ found = NotReturned

\* parse_element_from_str(..) of the next text, with the same options
ParseOther ==
    /\ phase = "done"
    /\ ~other.parsed
    /\ other' = [input |-> input, result |-> result, parsed |-> TRUE]
    /\ input' = other.input
    /\ self' = NewStream(from_str(other.input, self.options), "read_element")
    /\ phase' = "parse_next_element"
    /\ yielded' = <<>>
    /\ current_elements' = <<>>
    /\ current_property_name' = None
    /\ result' = NoResult
    /\ UNCHANGED <<mode, property_name, current_depth, found>>

\* find_property_value(property_name) on a new reader
InitFind(inputs, options, names) ==
    /\ input \in inputs
    /\ \E o \in options :
          self = NewStream(from_str(input, o), "read_element")
    /\ mode = "find"
    /\ phase = "find_property_value"
    /\ yielded = <<>>
    /\ current_elements = <<>>
    /\ current_property_name = None
    /\ result = NoResult
    /\ property_name \in names
    /\ current_depth = 0
    /\ found = NotReturned
    /\ other = NoOther

\* Return_find_property_value after which the caller goes on with the stream
\* find_property_value was reading
Return_find_property_value_keeping_stream(c, value) ==
    /\ found' = Returned(value)
    /\ IF value
       THEN /\ phase' \in {"read_element", "parse_next_element"}
            /\ self' = c
       ELSE /\ phase' = "done"
            /\ self' = [c EXCEPT !.stack = <<>>, !.out = NoItem]

\* find_property_value returns value; after true the caller goes on with
\* read_element or parse_element on the same reader, and the stream
\* find_property_value was reading is dropped
Return_find_property_value(c, value) ==
    /\ found' = Returned(value)
    /\ IF value
       THEN /\ phase' \in {"read_element", "parse_next_element"}
            /\ self' = NewStream(c, "read_element")
       ELSE /\ phase' = "done"
            /\ self' = [c EXCEPT !.stack = <<>>, !.out = NoItem]

\* FindToken that accepts the property name at any depth
FindToken_at_any_depth ==
    /\ phase = "find_property_value"
    /\ \E c \in {StreamNext(self)} :
           /\ yielded' = IF c.out = NoItem THEN yielded ELSE Append(yielded, c.out)
           /\ IF c.out = NoItem \/ c.out.kind # "Ok"
              THEN /\ Return_find_property_value(c, FALSE)
                   /\ UNCHANGED current_depth
              ELSE IF c.out.token.json_type \in {"StartObject", "StartArray"}
              THEN /\ current_depth' = current_depth + 1
                   /\ self' = c
                   /\ UNCHANGED <<phase, found>>
              ELSE IF c.out.token.json_type \in {"EndObject", "EndArray"}
              THEN /\ current_depth' = current_depth - 1
                   /\ self' = c
                   /\ UNCHANGED <<phase, found>>
              ELSE IF /\ c.out.token.json_type = "PropertyName"
                      /\ current_depth >= 1
                      /\ c.out.token.value = property_name
              THEN /\ Return_find_property_value(c, TRUE)
                   /\ UNCHANGED current_depth
              ELSE /\ self' = c
                   /\ UNCHANGED <<phase, found, current_depth>>
    /\ UNCHANGED <<input, mode, current_elements, current_property_name, result,
                   property_name, other>>

\* One iteration of `for token_result in self.read_element()` in
\* find_property_value
FindToken ==
    /\ phase = "find_property_value"
    /\ \E c \in {StreamNext(self)} :
           /\ yielded' = IF c.out = NoItem THEN yielded ELSE Append(yielded, c.out)
           /\ IF c.out = NoItem \/ c.out.kind # "Ok"
              THEN /\ Return_find_property_value(c, FALSE)
                   /\ UNCHANGED current_depth
              ELSE IF c.out.token.json_type \in {"StartObject", "StartArray"}
              THEN /\ current_depth' = current_depth + 1
                   /\ self' = c
                   /\ UNCHANGED <<phase, found>>
              ELSE IF c.out.token.json_type \in {"EndObject", "EndArray"}
              THEN /\ current_depth' = current_depth - 1
                   /\ self' = c
                   /\ UNCHANGED <<phase, found>>
              ELSE IF /\ c.out.token.json_type = "PropertyName"
                      /\ current_depth = 1
                      /\ c.out.token.value = property_name
              THEN /\ Return_find_property_value(c, TRUE)
                   /\ UNCHANGED current_depth
              ELSE /\ self' = c
                   /\ UNCHANGED <<phase, found, current_depth>>
    /\ UNCHANGED <<input, mode, current_elements, current_property_name, result,
                   property_name, other>>

MaxDepths == {1, 2}

ParseOptions ==
    {Options("Latest", single, 2, incomplete) :
        single \in BOOLEAN, incomplete \in BOOLEAN}

ReadOptions ==
    {Options("Latest", FALSE, max_depth, incomplete) :
        max_depth \in MaxDepths, incomplete \in BOOLEAN}

DefaultOptions ==
    {[JsonhReaderOptions_new EXCEPT !.parse_single_element = single] :
        single \in BOOLEAN}

FindInputs == Concatenations(StructurePieces, MaxPieces - 1)

FindOptions ==
    {[JsonhReaderOptions_new EXCEPT !.incomplete_inputs = incomplete] :
        incomplete \in BOOLEAN}

VersionOptions ==
    {[JsonhReaderOptions_new EXCEPT !.version = version] :
        version \in {"V1", "V2", "Latest"}}

\* parse_element_from_str(..), or from_str(..).read_element() collected
Init ==
    \/ InitWith(StructureInputs, ParseOptions, "parse")
    \/ InitWith(PrimitiveInputs \cup NumberInputs \cup EscapeInputs
                    \cup BasedLiterals \cup ExponentLiterals \cup LineInputs,
                DefaultOptions, "parse")
    \/ InitWith(StructureInputs, ReadOptions, "read")
    \/ InitWith(PrimitiveInputs \cup NumberInputs \cup EscapeInputs
                    \cup BasedLiterals \cup ExponentLiterals \cup LineInputs
                    \cup NestInputs,
                DefaultOptions, "read")
    \/ InitWith(NumberFollowedInputs \cup StringInputs, VersionOptions, "read")
    \/ InitWith(NumberFollowedInputs \cup StringInputs, VersionOptions, "parse")
    \/ InitFind(FindInputs \cup PrimitiveInputs, FindOptions, {<<"a">>, <<"b">>})
    \/ InitCompare(Lexemes, Gaps, DefaultOptions)

Next == ParseToken \/ EndOfElements \/ NextToken \/ FindToken \/ ParseOther

Spec == Init /\ [][Next]_vars

-----------------------------------------------------------------------------
(* What the properties below speak about.                                  *)

Done == phase = "done"
Parsing == mode = "parse"
Reading == mode = "read"
ErrorFree == \A i \in 1..Len(yielded) : yielded[i].kind = "Ok"
IsToken(item, types) == item.kind = "Ok" /\ item.token.json_type \in types
IsStart(item) == IsToken(item, {"StartObject", "StartArray"})
IsEnd(item) == IsToken(item, {"EndObject", "EndArray"})
IsError(item, msg) == item.kind = "Err" /\ item.err = msg

\* The number of containers open after the first i items
OpenCount(items, i) ==
    Cardinality({j \in 1..i : IsStart(items[j])})
    - Cardinality({j \in 1..i : IsEnd(items[j])})

\* The tokens of the items that are not comments
RECURSIVE WithoutComments(_)
WithoutComments(items) ==
    IF items = <<>> THEN <<>>
    ELSE IF IsToken(Head(items), {"Comment"}) THEN WithoutComments(Tail(items))
    ELSE <<Head(items)>> \o WithoutComments(Tail(items))

\* The part of the input the reader has consumed
Consumed == SubSeq(input, 1, Len(input) - Len(self.source))
Count(text, char) == Cardinality({i \in 1..Len(text) : text[i] = char})

RECURSIVE SkipIgnored(_)
\* The reader after the whitespace and comments at its position; ok is
\* FALSE when a comment is malformed
SkipIgnored(rd) ==
    LET c1 == read_whitespace(rd)
        comment_result == read_comment(c1)
    IN  IF peek(c1) \in {"#", "/"}
        THEN IF is_err(comment_result.item) THEN [rd |-> comment_result.rd, ok |-> FALSE]
             ELSE SkipIgnored(comment_result.rd)
        ELSE [rd |-> c1, ok |-> TRUE]


-----------------------------------------------------------------------------
(* The value tree a token stream denotes: a container holds every item or  *)
(* property value read between its Start token and the matching End token. *)

\* v added to the innermost open container, under the pending name if that
\* container is an object
Attach(open, names, v) ==
    LET parent == open[Len(open)]
    IN  [open EXCEPT ![Len(open)] =
            IF parent.t = "Array" THEN ValueArray(Append(parent.items, v))
            ELSE ValueObject((names[Len(names)] :> v) @@ parent.map)]

LeafValue(token) ==
    CASE token.json_type = "Null" -> ValueNull
      [] token.json_type = "True" -> ValueBool(TRUE)
      [] token.json_type = "False" -> ValueBool(FALSE)
      [] token.json_type = "String" -> ValueString(token.value)
      [] OTHER -> ValueNumber(JsonhNumberParser_parse(token.value).value)

RECURSIVE Denoted(_, _, _, _)
\* The value of the element that starts at items[i]; open are the containers
\* not yet closed, names[k] the last property name read in open[k]
Denoted(items, i, open, names) ==
    IF i > Len(items) THEN ValueNull
    ELSE LET token == items[i].token
             closed == open[Len(open)]
             outer == SubSeq(open, 1, Len(open) - 1)
             outer_names == SubSeq(names, 1, Len(names) - 1)
         IN  CASE token.json_type = "Comment" -> Denoted(items, i + 1, open, names)
               [] token.json_type = "PropertyName" ->
                     Denoted(items, i + 1, open,
                             [names EXCEPT ![Len(names)] = token.value])
               [] token.json_type = "StartObject" ->
                     Denoted(items, i + 1, Append(open, ValueObject(EmptyMap)),
                             Append(names, <<>>))
               [] token.json_type = "StartArray" ->
                     Denoted(items, i + 1, Append(open, ValueArray(<<>>)),
                             Append(names, <<>>))
               [] token.json_type \in {"EndObject", "EndArray"} ->
                     IF Len(open) = 1 THEN closed
                     ELSE Denoted(items, i + 1, Attach(outer, outer_names, closed),
                                  outer_names)
               [] OTHER ->
                     IF open = <<>> THEN LeafValue(token)
                     ELSE Denoted(items, i + 1, Attach(open, names, LeafValue(token)),
                                  names)

\* C1: the value parse_element returns is the value tree its token stream
\* denotes: every nested container holds the items and property values read
\* between its Start token and its End token.
C1_NestedContainersHoldTheirChildren ==
    (Parsing /\ Done /\ result.kind = "Ok")
        => result.value = Denoted(yielded, 1, <<>>, <<>>)


\* C2: with parse_single_element, parse_element returns an error when input
\* remains after the root element and the whitespace and comments behind
\* it, and returns the root value when nothing else remains.
C2_SingleElementRejectsFurtherInput ==
    (Parsing /\ Done /\ self.options.parse_single_element) =>
        /\ (result.kind = "Ok" => self.source = <<>>)
        /\ ((result.kind = "Err" /\ result.err = "Expected end of elements")
               => self.source # <<>>)

\* C3: the stream yields "Exceeded max depth" exactly when a container is
\* opened at nesting level max_depth + 1: the error always follows the Start
\* token of such a container, and no container that deep is ever read on.
C3_ExceededMaxDepthExactlyAtNextLevel ==
    \A i \in 1..Len(yielded) :
        /\ IsError(yielded[i], "Exceeded max depth")
              => /\ i > 1
                 /\ IsStart(yielded[i - 1])
                 /\ OpenCount(yielded, i - 1) = self.options.max_depth + 1
        /\ (IsStart(yielded[i]) /\ OpenCount(yielded, i) > self.options.max_depth)
              => /\ OpenCount(yielded, i) = self.options.max_depth + 1
                 /\ IF i < Len(yielded)
                    THEN IsError(yielded[i + 1], "Exceeded max depth")
                    ELSE ~Done

C3_DepthExceeded ==
    /\ Reading /\ Done /\ self.options.max_depth = 2
    /\ IsError(yielded[Len(yielded)], "Exceeded max depth")
    /\ IsToken(yielded[1], {"StartObject"})
    /\ Count(input, "{") = 0

RECURSIVE Balanced(_, _)
\* Every End token closes the container opened last, and none stays open
Balanced(items, open) ==
    IF items = <<>> THEN open = <<>>
    ELSE LET token == Head(items).token
         IN  CASE token.json_type \in {"StartObject", "StartArray"} ->
                     Balanced(Tail(items), Append(open, token.json_type))
               [] token.json_type = "EndObject" ->
                     /\ open # <<>>
                     /\ open[Len(open)] = "StartObject"
                     /\ Balanced(Tail(items), SubSeq(open, 1, Len(open) - 1))
               [] token.json_type = "EndArray" ->
                     /\ open # <<>>
                     /\ open[Len(open)] = "StartArray"
                     /\ Balanced(Tail(items), SubSeq(open, 1, Len(open) - 1))
               [] OTHER -> Balanced(Tail(items), open)

\* C4: in a read_element stream consumed to its end without an error, the
\* Start and End tokens are balanced and properly nested.
C4_StartAndEndTokensBalanced ==
    (Reading /\ Done /\ ErrorFree) => Balanced(yielded, <<>>)

C4_NestedStreamConsumed ==
    /\ Reading /\ Done /\ ErrorFree
    /\ \E i \in 1..Len(yielded) :
          IsToken(yielded[i], {"StartArray"}) /\ OpenCount(yielded, i) = 2
    /\ \E i \in 1..Len(yielded) : IsToken(yielded[i], {"StartObject"})

\* C5: depth is never negative, and it is 0 when a read_element stream has
\* been consumed to its end without an error, also when end of input closed
\* its containers.
C5_DepthNeverNegativeAndZeroAtEnd ==
    /\ self.depth >= 0
    /\ (Reading /\ Done /\ ErrorFree) => self.depth = 0

C5_ClosedByEndOfInput ==
    /\ Reading /\ Done /\ ErrorFree /\ self.depth = 0
    /\ self.options.incomplete_inputs
    /\ IsToken(yielded[1], {"StartObject"})
    /\ Count(input, "{") = 0 /\ Count(input, "[") = 1 /\ Count(input, "]") = 0

\* C6: an error is the last item of a read_element stream, and parse_element
\* returns the first error its stream yields.
C6_ErrorEndsTheStream ==
    /\ \A i \in 1..(Len(yielded) - 1) : yielded[i].kind = "Ok"
    /\ (Parsing /\ Done /\ yielded # <<>> /\ yielded[Len(yielded)].kind = "Err")
          => (result.kind = "Err" /\ result.err = yielded[Len(yielded)].err)

C6_NestedErrorThenEnd ==
    /\ Reading /\ Done /\ Len(yielded) >= 4
    /\ yielded[Len(yielded)].kind = "Err"
    /\ OpenCount(yielded, Len(yielded)) >= 2

\* C7: JsonhNumberParser::parse accepts the lexeme of every Number token the
\* tokenizer emits; when the value is not finite, parse_element fails with
\* "Failed to convert number to JSON number".
C7_NumberLexemesAreParsed ==
    \A i \in 1..Len(yielded) :
        IsToken(yielded[i], {"Number"}) =>
            LET number == JsonhNumberParser_parse(yielded[i].token.value)
            IN  /\ number.err = ""
                /\ (Parsing /\ Done /\ number.value.cls # "finite")
                      => result.err = "Failed to convert number to JSON number"

\* C8: char_counter is the number of characters consumed from the source.
C8_CharCounterCountsConsumedChars ==
    self.char_counter = Len(input) - Len(self.source)

\* The first character of the input that is not whitespace is a brace
RootBrace == peek(read_whitespace(from_str(input, self.options))) = "{"

\* C9: a braceless object is opened at the top level only: in a stream read
\* without an error, every nested object was opened by a brace.
C9_BracelessObjectOnlyAtTopLevel ==
    (Reading /\ Done /\ ErrorFree) =>
        Cardinality({i \in 1..Len(yielded) :
                        /\ IsToken(yielded[i], {"StartObject"})
                        /\ OpenCount(yielded, i) >= 2})
            <= Count(Consumed, "{") - (IF RootBrace THEN 1 ELSE 0)

FirstPosition == SkipIgnored(from_str(input, self.options))
FirstPrimitive == read_primitive_element(FirstPosition.rd)
AfterFirstPrimitive == SkipIgnored(FirstPrimitive.rd)
StartsWithPrimitive ==
    /\ FirstPosition.ok
    /\ peek(FirstPosition.rd) \notin {NoChar, "{", "["}
    /\ is_ok(FirstPrimitive.item)
    /\ AfterFirstPrimitive.ok
FollowedByColon == peek(AfterFirstPrimitive.rd) = ":"

\* C10: when the first primitive of the input is followed by ':', after any
\* whitespace and comments, the stream is a braceless object whose first
\* PropertyName is the text of that primitive and which stays open to the end
\* of input; otherwise the primitive is the element.
C10_FirstPrimitiveNamesBracelessObject ==
    (Reading /\ Done /\ StartsWithPrimitive) =>
        LET toks == WithoutComments(yielded)
        IN  IF FollowedByColon
            THEN /\ Len(toks) >= 2
                 /\ IsToken(toks[1], {"StartObject"})
                 /\ toks[2] = Ok(JsonhToken_new("PropertyName",
                                                FirstPrimitive.item.token.value))
                 /\ ErrorFree =>
                       /\ self.source = <<>>
                       /\ IsToken(toks[Len(toks)], {"EndObject"})
                       /\ \A i \in 1..(Len(toks) - 1) : OpenCount(toks, i) >= 1
            ELSE toks = <<FirstPrimitive.item>>

C10_NamedLiteralAsPropertyName ==
    /\ Reading /\ Done /\ ErrorFree /\ StartsWithPrimitive /\ FollowedByColon
    /\ FirstPrimitive.item.token.json_type = "Null"
    /\ IsToken(yielded[2], {"Comment"})
    /\ Len(yielded) > 5

-----------------------------------------------------------------------------
(* Numbers and quoteless strings at the start of the input.                *)

\* The reader at the first element, past the bracket of an opening array
AfterLead ==
    LET rd == from_str(input, self.options)
    IN  IF peek(rd) = "[" THEN read(rd) ELSE rd
FirstIndex1 == IF peek(from_str(input, self.options)) = "[" THEN 2 ELSE 1
StartsWithNumber ==
    Contains(DecDigits, peek(AfterLead)) \/ peek(AfterLead) \in {"-", "+", "."}
LeadingNumber == read_number(AfterLead)

RECURSIVE SkipBlanks(_)
\* text without the whitespace at its start that is not a newline
SkipBlanks(text) ==
    IF text # <<>> /\ Head(text) \in WHITESPACE_CHARS \ NEWLINE_CHARS
    THEN SkipBlanks(Tail(text)) ELSE text

RECURSIVE UpToStop(_, _)
\* text up to its first character in stops
UpToStop(text, stops) ==
    IF text = <<>> \/ Head(text) \in stops THEN <<>>
    ELSE <<Head(text)>> \o UpToStop(Tail(text), stops)

\* C11: a complete number lexeme is a Number token when a newline, a reserved
\* character other than a backslash or the end of input follows it, after
\* whitespace that is not a newline; otherwise the lexeme, the skipped
\* whitespace and the characters that follow on the line are read as one
\* quoteless string: a String token of these characters, trimmed, or the
\* error of a malformed escape sequence among them.
C11_NumberOrQuotelessString ==
    (Reading /\ StartsWithNumber /\ LeadingNumber.err = ""
     /\ Count(input, ":") = 0 /\ Len(yielded) >= FirstIndex1) =>
        LET lexeme == LeadingNumber.number_builder
            rest == LeadingNumber.rd.source
            following == SkipBlanks(rest)
            blanks == SubSeq(rest, 1, Len(rest) - Len(following))
            stops == NEWLINE_CHARS \cup reserved_chars(self)
            line == UpToStop(following, stops)
            item == yielded[FirstIndex1]
        IN  IF following = <<>> \/ Head(following) \in stops \ {"\\"}
            THEN item = Ok(JsonhToken_new("Number", lexeme))
            ELSE IF Count(UpToStop(following, stops \ {"\\"}), "\\") = 0
            THEN item = Ok(JsonhToken_new("String",
                                          trim_matches(lexeme \o blanks \o line)))
            ELSE \/ /\ IsToken(item, {"String"})
                    /\ StartsWith(item.token.value, lexeme)
                 \/ IsError(item, "Expected escape sequence, got end of input")

C11_NumberThenQuotelessStringThenNumber ==
    /\ Reading /\ Done /\ ErrorFree /\ Len(yielded) = 5
    /\ yielded[2] = Ok(JsonhToken_new("Number", <<"3">>))
    /\ yielded[3] = Ok(JsonhToken_new("String", <<"4", " ", "5">>))
    /\ yielded[4] = Ok(JsonhToken_new("Number", <<"6">>))

\* C12: when read_number fails, its error is not surfaced: the characters it
\* consumed are continued as a quoteless string, and the String token holds
\* exactly the characters of the literal in the source, trimmed, none lost
\* and none duplicated (an escape sequence in the literal is decoded, or is
\* the error of the stream when it is malformed).
C12_MalformedNumberIsQuotelessString ==
    (Reading /\ StartsWithNumber /\ LeadingNumber.err # ""
     /\ Count(input, ":") = 0 /\ Len(yielded) >= FirstIndex1) =>
        LET stops == NEWLINE_CHARS \cup reserved_chars(self)
            literal == UpToStop(AfterLead.source, stops)
            item == yielded[FirstIndex1]
        IN  /\ ~IsError(item, LeadingNumber.err)
            /\ IF peek([AfterLead EXCEPT !.source = From(AfterLead.source, Len(literal))]) # "\\"
               THEN item = Ok(JsonhToken_new("String", trim_matches(literal)))
               ELSE \/ /\ IsToken(item, {"String"})
                       /\ StartsWith(item.token.value, TrimEnd(literal))
                    \/ IsError(item, "Expected escape sequence, got end of input")

C12_DotAfterUnderscoreKept ==
    /\ Reading /\ Done /\ StartsWithNumber /\ LeadingNumber.err # ""
    /\ Len(input) = 3 /\ input[2] = "_" /\ input[3] = "."
    /\ yielded = <<Ok(JsonhToken_new("String", input))>>

-----------------------------------------------------------------------------
(* Quoteless, named and verbatim strings.                                  *)

\* Every string of the input is quoteless
Quoteless == Count(input, "\"") = 0 /\ Count(input, "'") = 0

\* C13: a quoteless string is never a String or PropertyName token with an
\* empty value: its text is trimmed of whitespace, also of whitespace that
\* came from escape sequences, and a text that is empty after trimming is
\* the error "Empty quoteless string".
C13_QuotelessStringNeverEmpty ==
    Quoteless =>
        \A i \in 1..Len(yielded) :
            IsToken(yielded[i], {"String", "PropertyName"})
                => /\ yielded[i].token.value # <<>>
                   /\ trim_matches(yielded[i].token.value) = yielded[i].token.value

\* The input starts with a quoteless string that is no property name
StartsWithQuotelessString ==
    /\ Quoteless /\ Count(input, ":") = 0
    /\ FirstPosition.ok
    /\ peek(FirstPosition.rd) \notin {NoChar, "{", "[", "]", "}", ",", "-", "+", "."}
    /\ ~Contains(DecDigits, peek(FirstPosition.rd))
FirstIsVerbatim ==
    supports_version(self.options, "V2") /\ peek(FirstPosition.rd) = "@"
\* The string is verbatim and its symbol is followed by whitespace
FirstIsLoneVerbatimSymbol ==
    FirstIsVerbatim /\ peek(read(FirstPosition.rd)) \in WHITESPACE_CHARS
\* The characters of that string: [rd, err, string_builder, ..]
FirstQuotelessChars ==
    read_quoteless_chars(IF FirstIsVerbatim THEN read(FirstPosition.rd)
                         ELSE FirstPosition.rd,
                         <<>>, FirstIsVerbatim, TRUE)
FirstQuotelessText == trim_matches(FirstQuotelessChars.string_builder)
\* Its characters in the source
FirstQuotelessSource ==
    SubSeq(FirstPosition.rd.source, 1,
           Len(FirstPosition.rd.source) - Len(FirstQuotelessChars.rd.source))
NamedLiteralType(text) ==
    CASE text = NullText -> "Null" [] text = TrueText -> "True"
      [] text = FalseText -> "False" [] OTHER -> "String"

\* An error of a comment, read behind the string before its token is yielded
IsCommentError(item) ==
    item.kind = "Err"
    /\ item.err \in {"Unexpected '/'",
                     "Expected end of block comment, got end of input",
                     "Expected '*' after start of nesting block comment"}

\* C14 as stated: a quoteless string that is not verbatim is a Null, True or
\* False token exactly when its decoded, trimmed text is null, true or false;
\* any other text, and every verbatim quoteless string, is a String token.
C14_NamedLiteralWhenDecodedTextMatches ==
    (Reading /\ StartsWithQuotelessString /\ ~FirstIsLoneVerbatimSymbol
     /\ FirstQuotelessChars.err = "" /\ FirstQuotelessText # <<>>
     /\ WithoutComments(yielded) # <<>>
     /\ ~IsCommentError(WithoutComments(yielded)[1])) =>
        WithoutComments(yielded)[1] =
            Ok(JsonhToken_new(IF FirstIsVerbatim THEN "String"
                              ELSE NamedLiteralType(FirstQuotelessText),
                              FirstQuotelessText))

\* C14: a quoteless string that is not verbatim and holds no escape sequence
\* is a Null, True or False token exactly when its trimmed text is null, true
\* or false; any other text, every quoteless string with an escape sequence
\* and every verbatim quoteless string is a String token.
C14_NamedLiteralWhenUnescapedTextMatches ==
    (Reading /\ StartsWithQuotelessString /\ ~FirstIsLoneVerbatimSymbol
     /\ FirstQuotelessChars.err = "" /\ FirstQuotelessText # <<>>
     /\ WithoutComments(yielded) # <<>>
     /\ ~IsCommentError(WithoutComments(yielded)[1])) =>
        WithoutComments(yielded)[1] =
            Ok(JsonhToken_new(IF FirstIsVerbatim
                                 \/ Count(FirstQuotelessSource, "\\") > 0
                              THEN "String"
                              ELSE NamedLiteralType(FirstQuotelessText),
                              FirstQuotelessText))

C14_EscapedNullIsString ==
    /\ Reading /\ Done /\ StartsWithQuotelessString /\ ~FirstIsVerbatim
    /\ Count(FirstQuotelessSource, "\\") = 1
    /\ FirstQuotelessText = NullText
    /\ yielded = <<Ok(JsonhToken_new("String", NullText))>>

RECURSIVE QuoteRun(_, _)
\* The number of quote characters text starts with
QuoteRun(text, quote) ==
    IF text # <<>> /\ Head(text) = quote THEN 1 + QuoteRun(Tail(text), quote)
    ELSE 0

RECURSIVE UpToQuotes(_, _, _)
\* text up to its first run of n quote characters
UpToQuotes(text, quote, n) ==
    IF Len(text) < n THEN text
    ELSE IF SubSeq(text, 1, n) = Repeat(quote, n) THEN <<>>
    ELSE <<Head(text)>> \o UpToQuotes(Tail(text), quote, n)

\* The first string of the input, as the token or the property name it became
FirstString ==
    LET toks == WithoutComments(yielded)
    IN  IF IsToken(toks[1], {"StartObject"}) /\ Len(toks) >= 2 THEN toks[2]
        ELSE toks[1]

\* C15: with V2 or Latest, a string prefixed with '@' keeps every backslash
\* of its source as a literal character and decodes no escape sequence,
\* whether it is quoted once, multi-quoted or quoteless; '@' followed by the
\* end of input, whitespace, '#' or '/' is the error "Expected string to
\* immediately follow verbatim symbol".
C15_VerbatimKeepsBackslashes ==
    (Reading /\ Done /\ FirstPosition.ok /\ FirstIsVerbatim) =>
        LET text == read(FirstPosition.rd).source
            next == IF text = <<>> THEN NoChar ELSE Head(text)
            n == QuoteRun(text, next)
            inner == From(text, n)
            body == UpToQuotes(inner, next, n)
            raw == UpToStop(text, (NEWLINE_CHARS \cup reserved_chars(self)) \ {"\\"})
            item == FirstString
        IN  IF next \in {NoChar, "#", "/"} \cup WHITESPACE_CHARS
            THEN IsError(item, "Expected string to immediately follow verbatim symbol")
            ELSE IF next \notin {"\"", "'"}
            THEN IF raw = <<>> THEN IsError(item, "Empty quoteless string")
                 ELSE /\ IsToken(item, {"String", "PropertyName"})
                      /\ item.token.value = trim_matches(raw)
            ELSE IF n = 2
            THEN IsToken(item, {"String", "PropertyName"}) /\ item.token.value = <<>>
            ELSE IF Len(body) + n > Len(inner)
            THEN IsError(item, "Expected end of string, got end of input")
            ELSE /\ IsToken(item, {"String", "PropertyName"})
                 /\ Count(item.token.value, "\\") = Count(body, "\\")
                 /\ IF n = 1 THEN item.token.value = body
                    ELSE \A i \in 1..Len(item.token.value) :
                            Count(body, item.token.value[i]) > 0

C15_VerbatimMultiQuotedBackslashes ==
    /\ Reading /\ Done /\ FirstPosition.ok /\ FirstIsVerbatim
    /\ QuoteRun(read(FirstPosition.rd).source, "\"") = 3
    /\ yielded = <<Ok(JsonhToken_new("String", <<"c", "\\", "\\">>))>>

NestableComment == <<"/", "=", "*", "c", "*", "=", "/">>
IsV2 == self.options.version \in {"V2", "Latest"}

\* C16: with V1 none of the additions of V2 is active: a nestable block
\* comment is the error "Unexpected '/'", and '@' is an ordinary character of
\* a quoteless string, whose escape sequences are decoded.  With V2 or Latest
\* the comment is read, '@' starts a verbatim string, and '@' ends a quoteless
\* string as a reserved character.
C16_VersionGatesV2Additions ==
    (Reading /\ Done) =>
        /\ StartsWith(input, NestableComment) =>
               IF IsV2 THEN yielded[1] = Ok(JsonhToken_new("Comment", <<"c">>))
               ELSE yielded = <<Err("Unexpected '/'")>>
        /\ (FirstPosition.ok /\ peek(FirstPosition.rd) = "@" /\ ~IsV2) =>
               \/ /\ IsToken(FirstString, {"String", "PropertyName"})
                  /\ Head(FirstString.token.value) = "@"
                  /\ Count(FirstString.token.value, "\\")
                        < Count(FirstQuotelessSource, "\\")
                     \/ Count(FirstQuotelessSource, "\\") = 0
               \/ IsError(FirstString, "Expected escape sequence, got end of input")
        /\ (Quoteless /\ IsV2) =>
               \A i \in 1..Len(yielded) :
                   IsToken(yielded[i], {"String", "PropertyName"})
                       => Count(yielded[i].token.value, "@") = 0
        /\ (Quoteless /\ ~IsV2 /\ ErrorFree) =>
               Cardinality({i \in 1..Len(yielded) :
                               /\ IsToken(yielded[i], {"String", "PropertyName"})
                               /\ Count(yielded[i].token.value, "@") > 0})
                   >= (IF Count(input, "@") > 0 THEN 1 ELSE 0)

C16_AtSignInPropertyOfV1 ==
    /\ Reading /\ Done /\ ~IsV2
    /\ yielded = <<Ok(JsonhToken_new_empty("StartObject")),
                   Ok(JsonhToken_new("PropertyName", <<"@", "c", "\\">>)),
                   Ok(JsonhToken_new("String", <<"@", "d", "\\">>)),
                   Ok(JsonhToken_new_empty("EndObject"))>>

-----------------------------------------------------------------------------
(* find_property_value.                                                    *)

Finding == mode = "find"

RECURSIVE AllItems(_)
ItemsFrom(c) ==
    IF c.out = NoItem THEN <<>>
    ELSE IF c.out.kind = "Panic" THEN <<c.out>>
    ELSE <<c.out>> \o AllItems(c)
\* Every item of the stream c, read to its end
AllItems(c) == ItemsFrom(StreamNext(c))

\* The token stream of the next element of the input
ElementStream == AllItems(NewStream(from_str(input, self.options), "read_element"))

\* The index in items of the first PropertyName name of the top-level object
\* that no error precedes, 0 when there is none
MatchIndex(items, name) ==
    LET matches == {i \in 1..Len(items) :
                       /\ items[i] = Ok(JsonhToken_new("PropertyName", name))
                       /\ OpenCount(items, i) = 1
                       /\ \A j \in 1..i : items[j].kind = "Ok"}
    IN  IF matches = {} THEN 0
        ELSE CHOOSE i \in matches : \A j \in matches : i <= j

\* C17: find_property_value(property_name) returns true exactly when the
\* token stream of the next element holds, before any error, a PropertyName
\* token equal to property_name at depth exactly 1; it returns false at the
\* end of the input and on any error.
C17_FindsTopLevelPropertyOnly ==
    (Finding /\ found.returned) =>
        found.value = (MatchIndex(ElementStream, property_name) # 0)

C17_FoundBehindComment ==
    /\ Finding /\ found = Returned(TRUE) /\ Len(yielded) = 3
    /\ IsToken(yielded[2], {"Comment"})
    /\ MatchIndex(ElementStream, property_name) = 3

\* What the streams yielded after find_property_value returned true
Following == From(yielded, MatchIndex(ElementStream, property_name))

\* toks are the tokens of exactly one element
OneElement(toks) ==
    /\ toks # <<>>
    /\ Balanced(toks, <<>>)
    /\ IF IsStart(toks[1])
       THEN \A i \in 1..(Len(toks) - 1) : OpenCount(toks, i) >= 1
       ELSE Len(toks) = 1 /\ ~IsToken(toks[1], {"PropertyName"})

\* following is exactly the one element of a value, and what parse_element
\* returned, if it was called, is that value when it is a primitive
IsTheValue(following) ==
    /\ OneElement(following)
    /\ (result # NoResult /\ ~IsStart(following[1]))
          => \/ result = ResultOk(LeafValue(following[1].token))
             \/ result.kind = "Err"

\* The streams read after the first k items of items go on as items does
FollowsAt(items, k, following) ==
    /\ Len(yielded) = k => Consumed # <<>> /\ Last(Consumed) = ":"
    /\ StartsWith(From(items, k), following)
    /\ (Done /\ \A i \in 1..Len(following) : following[i].kind = "Ok")
          => IsTheValue(WithoutComments(following))

ValueFollows(items) ==
    FollowsAt(items, MatchIndex(items, property_name),
              From(yielded, MatchIndex(items, property_name)))

\* C18: when find_property_value has returned true, the reader is right
\* behind the ':' of the first matching property of the top-level object: the
\* read_element or parse_element that follows on the same reader yields the
\* tokens that follow that PropertyName in the stream of the whole element,
\* and, read to its end without an error, exactly the one element that is
\* the value of the property.
C18_ReaderIsAtTheValueOfTheFoundProperty ==
    (Finding /\ found = Returned(TRUE)) => ValueFollows(ElementStream)

C18_ValueIsContainerClosedByEndOfInput ==
    /\ Finding /\ Done /\ found = Returned(TRUE) /\ result = NoResult
    /\ self.options.incomplete_inputs
    /\ Len(Following) = 3
    /\ IsToken(Following[1], {"StartArray"})
    /\ IsToken(Following[3], {"EndArray"})

-----------------------------------------------------------------------------
(* Incomplete inputs.                                                      *)

\* The stream of the input read with incomplete_inputs = incomplete
StreamWith(incomplete) ==
    AllItems(NewStream(from_str(input, [self.options EXCEPT
                                            !.incomplete_inputs = incomplete]),
                       "read_element"))
ObjectNotEnded == "Expected '}' to end object, got end of input"
ArrayNotEnded == "Expected ']' to end array, got end of input"
\* items end with the error of a braced object or an array the end of input
\* leaves open
EndsNotEnded(items) ==
    /\ items # <<>>
    /\ \/ IsError(items[Len(items)], ObjectNotEnded)
       \/ IsError(items[Len(items)], ArrayNotEnded)

\* lenient goes on where strict ends with its error, with the End token of
\* every open container, innermost first
ClosesWhatIsOpen(strict, lenient) ==
    /\ StartsWith(lenient, SubSeq(strict, 1, Len(strict) - 1))
    /\ Len(lenient) - (Len(strict) - 1) = OpenCount(strict, Len(strict) - 1)
    /\ \A i \in Len(strict)..Len(lenient) : IsEnd(lenient[i])
    /\ IsToken(lenient[Len(strict)],
               IF IsError(strict[Len(strict)], ObjectNotEnded)
               THEN {"EndObject"} ELSE {"EndArray"})
    /\ Balanced(lenient, <<>>)

SameOrClosed(strict, lenient) ==
    IF EndsNotEnded(strict) THEN ClosesWhatIsOpen(strict, lenient)
    ELSE lenient = strict

-----------------------------------------------------------------------------
(* The order of the tokens.                                                *)

RECURSIVE CommentsIgnored(_)
\* The number of comments SkipIgnored passes at the reader's position
CommentsIgnored(rd) ==
    IF peek(read_whitespace(rd)) \in {"#", "/"}
       /\ is_ok(read_comment(read_whitespace(rd)).item)
    THEN 1 + CommentsIgnored(read_comment(read_whitespace(rd)).rd)
    ELSE 0

\* The input starts with a brace
RootBraced == FirstPosition.ok /\ peek(FirstPosition.rd) = "{"
\* The reader at the first primitive or property name of the input
NamePosition == IF RootBraced THEN SkipIgnored(read(FirstPosition.rd)) ELSE FirstPosition
NamePrimitive ==
    IF RootBraced THEN read_string(NamePosition.rd)
    ELSE read_primitive_element(NamePosition.rd)
\* The comments in front of it, and those between it and what follows it
CommentsBeforeName ==
    CommentsIgnored(from_str(input, self.options))
    + (IF RootBraced THEN CommentsIgnored(read(FirstPosition.rd)) ELSE 0)
CommentsBehindName == CommentsIgnored(NamePrimitive.rd)
NameFollowedByColon == peek(SkipIgnored(NamePrimitive.rd).rd) = ":"
StartsWithName ==
    /\ NamePosition.ok
    /\ peek(NamePosition.rd) \notin {NoChar, "{", "[", "}"}
    /\ is_ok(NamePrimitive.item)
    /\ SkipIgnored(NamePrimitive.rd).ok
    /\ RootBraced => NameFollowedByColon
NameTypes == {"PropertyName", "String", "Number", "Null", "True", "False"}
\* The index in yielded of the token of that primitive or property name
NameIndex ==
    CHOOSE i \in 1..Len(yielded) :
        /\ IsToken(yielded[i], NameTypes)
        /\ \A j \in 1..(i - 1) : ~IsToken(yielded[j], NameTypes)
CommentTokensBeforeName ==
    Cardinality({i \in 1..(NameIndex - 1) : IsToken(yielded[i], {"Comment"})})

\* C20 as stated: the tokens come in the order of the characters they are
\* read from, also the Comment tokens of the comments between a property
\* name or root primitive and what follows it: only the comments in front of
\* the name or primitive are yielded before its token.
C20_TokensInDocumentOrder ==
    (Reading /\ Done /\ ErrorFree /\ StartsWithName) =>
        CommentTokensBeforeName = CommentsBeforeName

\* C20: the tokens come in the order of the characters they are read from,
\* except that a PropertyName token is yielded once its ':' has been read,
\* behind the Comment tokens of the comments between the name and the ':';
\* the token of a root primitive that no ':' follows is yielded before the
\* Comment tokens of the comments behind it.
C20_PropertyNameFollowsItsComments ==
    (Reading /\ Done /\ ErrorFree /\ StartsWithName) =>
        CommentTokensBeforeName =
            CommentsBeforeName + (IF NameFollowedByColon THEN CommentsBehindName ELSE 0)

C20_CommentBeforePropertyNameOfBracedObject ==
    /\ Reading /\ Done /\ ErrorFree /\ StartsWithName /\ RootBraced
    /\ CommentsBehindName = 1
    /\ IsToken(yielded[2], {"Comment"})
    /\ IsToken(yielded[3], {"PropertyName"})

-----------------------------------------------------------------------------
(* Comments and whitespace between lexemes.                                *)

Compared == Parsing /\ Done /\ other # NoOther /\ other.parsed

-----------------------------------------------------------------------------
(* Surrogate pairs.                                                        *)

RECURSIVE HexValue(_, _)
HexValue(digits, value) ==
    IF digits = <<>> THEN value
    ELSE HexValue(Tail(digits), value * 16 + HexDigitValue(Head(digits)))

\* The hex escape sequence the text starts with: [ok, value, rest]
HexEscape(text) ==
    LET length == IF Len(text) < 2 THEN 0
                  ELSE CASE text[2] = "u" -> 4 [] text[2] = "U" -> 8
                         [] text[2] = "x" -> 2 [] OTHER -> 0
        digits == SubSeq(text, 3, 2 + length)
    IN  IF /\ length > 0 /\ text[1] = "\\" /\ Len(text) >= 2 + length
           /\ \A i \in 1..length : IsHexDigit(digits[i])
        THEN [ok |-> TRUE, value |-> HexValue(digits, 0),
              rest |-> From(text, 2 + length)]
        ELSE [ok |-> FALSE, value |-> 0, rest |-> text]

RECURSIVE BitOr(_, _)
BitOr(a, b) ==
    IF a = 0 THEN b
    ELSE IF b = 0 THEN a
    ELSE (IF a % 2 = 1 \/ b % 2 = 1 THEN 1 ELSE 0) + 2 * BitOr(a \div 2, b \div 2)

Unquoted == IF input # <<>> /\ Head(input) = "\"" THEN Tail(input) ELSE input
HighEscape == HexEscape(Unquoted)
LowEscape == HexEscape(HighEscape.rest)
StartsWithHighSurrogate ==
    HighEscape.ok /\ is_utf16_high_surrogate(HighEscape.value)
Combined(hi, lo) == 65536 + BitOr((hi - 55296) * 1024, lo - 56320)

SurrogatePair(item, hi, low) ==
    IF low.ok /\ is_utf16_low_surrogate(low.value)
    THEN /\ IsToken(item, {"String"})
         /\ item.token.value # <<>>
         /\ Head(item.token.value) = "U+" \o ToString(Combined(hi, low.value))
         /\ Combined(hi, low.value) \in 65536..1114111
    ELSE IF low.ok
    THEN IsError(item, "Low surrogate out of range")
    ELSE Len(low.rest) >= 2 /\ low.rest[1] = "\\" /\ low.rest[2] \notin {"u", "x", "U"}
            => IsError(item, "Expected low surrogate after high surrogate")

\* C22: a hex escape sequence that yields a high surrogate hi, with a \u, \x
\* or \U escape sequence that yields lo right behind it, decodes to the one
\* character 0x10000 + (((hi - 0xD800) << 10) | (lo - 0xDC00)), which lies in
\* 0x10000..0x10FFFF, when lo is in 0xDC00..0xDFFF; when lo is outside that
\* range, or the escape sequence behind hi is none of \u, \x and \U, the
\* string is an error.
C22_SurrogatePairDecodesToOneCodePoint ==
    StartsWithHighSurrogate /\ yielded # <<>>
        => SurrogatePair(yielded[1], HighEscape.value, LowEscape)

C22_AlienFromSurrogatePair ==
    /\ Done
    /\ input = Chars("\"\\ud83d\\udc7da\"")
    /\ IsToken(yielded[1], {"String"})
    /\ yielded[1].token.value = <<"U+128125", "a">>

-----------------------------------------------------------------------------
(* Base specifiers.                                                        *)

DigitsOfSpecifier(specifier) ==
    CASE specifier \in {"x", "X"} -> HexDigits
      [] specifier \in {"b", "B"} -> BinDigits
      [] specifier \in {"o", "O"} -> OctDigits

IsBasedLiteral == input \in BasedLiterals

AllDigitsOfItsBase ==
    \A i \in 3..Len(input) :
        Contains(DigitsOfSpecifier(input[2]), to_ascii_lowercase(input[i]))

\* C23: of a literal that starts with 0 and a base specifier, only the one
\* character behind the 0 is the base specifier, and every character behind
\* it is read as a digit of that base: the literal is a Number token exactly
\* when all of them are digits of that base.
C23_OneBaseSpecifier ==
    IsBasedLiteral /\ yielded # <<>>
        => IF AllDigitsOfItsBase
           THEN yielded[1] = Ok(JsonhToken_new("Number", input))
           ELSE ~IsToken(yielded[1], {"Number"})

-----------------------------------------------------------------------------
(* Hexadecimal literals with an exponent.                                  *)

Unsigned == IF input # <<>> /\ Head(input) \in {"-", "+"} THEN Tail(input) ELSE input
HexBody == From(Unsigned, 2)

\* The first e or E of the text with a sign right behind it, or 0
SignedExponentIndex(text) ==
    LET marks == {i \in 1..(Len(text) - 1) :
                     text[i] \in {"e", "E"} /\ text[i + 1] \in {"+", "-"}}
    IN  IF marks = {} THEN 0 ELSE CHOOSE i \in marks : \A j \in marks : i <= j

HexMantissa ==
    IF SignedExponentIndex(HexBody) = 0 THEN HexBody
    ELSE SubSeq(HexBody, 1, SignedExponentIndex(HexBody) - 1)

HexExponent ==
    IF SignedExponentIndex(HexBody) = 0 THEN <<>>
    ELSE From(HexBody, SignedExponentIndex(HexBody) + 1)

AllHexDigits(text) ==
    text # <<>> /\ \A i \in 1..Len(text) : IsHexDigit(text[i])

\* A hexadecimal literal: a sign or none, 0x, a mantissa of hexadecimal
\* digits that does not begin with the letter of another base specifier
\* and, behind an e or E with a sign, an exponent of hexadecimal digits
IsHexLiteral ==
    /\ StartsWith(Unsigned, <<"0", "x">>)
    /\ AllHexDigits(HexMantissa)
    /\ HexMantissa[1] \notin {"b", "B"}
    /\ SignedExponentIndex(HexBody) # 0
           => /\ AllHexDigits(HexExponent)
              /\ HexValue(HexExponent, 0) <= MaxFoldedExponent

\* numerator and denominator of mantissa * 10 ^ exponent
HexNumerator ==
    (IF Head(input) = "-" THEN -1 ELSE 1) * HexValue(HexMantissa, 0)
        * (IF SignedExponentIndex(HexBody) # 0
              /\ HexBody[SignedExponentIndex(HexBody) + 1] = "+"
           THEN Pow(10, HexValue(HexExponent, 0)) ELSE 1)

HexDenominator ==
    IF SignedExponentIndex(HexBody) # 0
       /\ HexBody[SignedExponentIndex(HexBody) + 1] = "-"
    THEN Pow(10, HexValue(HexExponent, 0)) ELSE 1

IsTheNumber(value, numerator, denominator) ==
    /\ value.t = "Number"
    /\ value.number.cls = "finite"
    /\ value.number.xn = 0
    /\ value.number.n * denominator = numerator * value.number.d

IsSpecifierThenExponent ==
    /\ Len(Unsigned) >= 4
    /\ Unsigned[1] = "0"
    /\ Unsigned[2] \in BaseSpecifiers
    /\ Unsigned[3] \in {"e", "E"}
    /\ Unsigned[4] \in {"+", "-"}

\* C25: a literal with a base specifier whose only mantissa character is an
\* e or E with a sign behind it has no digit between the specifier and the
\* exponent: with or without a leading sign it is never a Number token, it
\* is read as a quoteless string.
C25_NoDigitBeforeExponentIsString ==
    IsSpecifierThenExponent /\ yielded # <<>>
        => IsToken(yielded[1], {"String"})

-----------------------------------------------------------------------------
(* Multi-quoted strings.                                                   *)

IsLines == input \in LineInputs
IsMultiQuotedLines == IsLines /\ input[2] = "\""
IsSingleQuotedLines == IsLines /\ input[2] # "\""
LineContent ==
    IF IsMultiQuotedLines THEN SubSeq(input, 4, Len(input) - 3)
    ELSE SubSeq(input, 2, Len(input) - 1)

RECURSIVE StripLines(_, _, _)
\* The text with at most w characters of the whitespace each line starts
\* with removed, k being what may still be removed of the first line
StripLines(text, k, w) ==
    IF text = <<>> THEN <<>>
    ELSE IF Head(text) \in NEWLINE_CHARS
    THEN <<Head(text)>> \o StripLines(Tail(text), w, w)
    ELSE IF Head(text) \in WHITESPACE_CHARS /\ k > 0
    THEN StripLines(Tail(text), k - 1, w)
    ELSE <<Head(text)>> \o StripLines(Tail(text), 0, w)

\* What passes 3 and 4 leave of the content, and the W of pass 2
BetweenRegions(content, p1, p2) ==
    SubSeq(content, p1.leading_whitespace_newline_counter + 1, p2.last_newline_index)

LinesStripped(item, content, p1, p2) ==
    /\ p1.has_leading_whitespace_newline
    /\ p2.has_trailing_newline_whitespace
    /\ p2.trailing_whitespace_counter > 0
    /\ p1.leading_whitespace_newline_counter <= p2.last_newline_index
    => item = Ok(JsonhToken_new("String",
                    StripLines(BetweenRegions(content, p1, p2),
                               p2.trailing_whitespace_counter,
                               p2.trailing_whitespace_counter)))

\* C26: pass 5 of the indent stripping, for W > 0, removes from every line
\* exactly min(W, length of the whitespace the line starts with) leading
\* whitespace characters, from the lines of whitespace only and from the
\* last line too, and removes or moves no other character.
C26_EveryLineLosesItsIndent ==
    IsMultiQuotedLines /\ yielded # <<>>
        => LinesStripped(yielded[1], LineContent, pass1(LineContent, 0),
                         pass2(LineContent, 0, FALSE, 0, 0))

\* The content starts with whitespace or nothing, and a newline
StartsWithBlankLine(content) ==
    \E i \in 1..Len(content) :
        /\ content[i] \in NEWLINE_CHARS
        /\ \A j \in 1..(i - 1) : content[j] \in WHITESPACE_CHARS

\* The content has a newline, and only whitespace behind its last newline
EndsWithBlankLine(content) ==
    \E i \in 1..Len(content) :
        /\ content[i] \in NEWLINE_CHARS
        /\ \A j \in (i + 1)..Len(content) : content[j] \in WHITESPACE_CHARS

\* The length of the leading region: up to the first newline, a CR LF
\* being one newline
LeadingRegion(content) ==
    LET first == CHOOSE i \in 1..Len(content) :
                     /\ content[i] \in NEWLINE_CHARS
                     /\ \A j \in 1..(i - 1) : content[j] \notin NEWLINE_CHARS
    IN  IF content[first] = "\r" /\ first < Len(content) /\ content[first + 1] = "\n"
        THEN first + 1 ELSE first

\* The index of the last newline, a CR LF being one newline
LastNewline(content) ==
    LET last == CHOOSE i \in 1..Len(content) :
                    /\ content[i] \in NEWLINE_CHARS
                    /\ \A j \in (i + 1)..Len(content) : content[j] \notin NEWLINE_CHARS
    IN  IF content[last] = "\n" /\ last > 1 /\ content[last - 1] = "\r"
        THEN last - 1 ELSE last

Unchanged(item, content) == item = Ok(JsonhToken_new("String", content))

\* Not stripped, or, with nothing behind the last newline, without its
\* leading region and without its last newline
FrameOfStripping(item, content) ==
    IF ~StartsWithBlankLine(content) \/ ~EndsWithBlankLine(content)
    THEN Unchanged(item, content)
    ELSE (Last(content) \in NEWLINE_CHARS
          /\ LeadingRegion(content) < LastNewline(content))
            => Unchanged(item, SubSeq(content, LeadingRegion(content) + 1,
                                      LastNewline(content) - 1))

\* C27: the content of a multi-quoted string is returned unchanged when it
\* does not start with whitespace or nothing and a newline, and when a
\* character that is no whitespace follows its last newline; the content of
\* a string in single quotes is always returned unchanged; a CR LF is one
\* newline of the leading region.
C27_UnchangedUnlessBlankFirstAndLastLine ==
    /\ IsSingleQuotedLines /\ yielded # <<>> => Unchanged(yielded[1], LineContent)
    /\ IsMultiQuotedLines /\ yielded # <<>>
          => FrameOfStripping(yielded[1], LineContent)

C27_NoBlankLastLine ==
    /\ Done
    /\ input = Chars("\"\"\"\n  a \n a\"\"\"")
    /\ Unchanged(yielded[1], Chars("\n  a \n a"))

\* Pass 4 drains no more than pass 3 left
InsideBuffer(p1, p2) ==
    p1.has_leading_whitespace_newline /\ p2.has_trailing_newline_whitespace
        => p1.leading_whitespace_newline_counter <= p2.last_newline_index

\* C29: the indent stripping removes no range outside its buffer: when
\* passes 1 and 2 succeed, the length of the leading region that pass 4
\* drops is at most the number of characters pass 3 left, the index of the
\* last newline, also when the only newline of the content is both the
\* leading and the trailing one; no string makes the reader panic.
C29_StrippingStaysInsideBuffer ==
    /\ \A i \in 1..Len(yielded) : yielded[i].kind # "Panic"
    /\ IsMultiQuotedLines => InsideBuffer(pass1(LineContent, 0),
                                          pass2(LineContent, 0, FALSE, 0, 0))

-----------------------------------------------------------------------------
(* Nestable block comments.                                                *)

\* The number of '=' behind the '/' the input starts with, 0 when no '*'
\* follows them
Nests ==
    IF input = <<>> \/ Head(input) # "/" THEN 0
    ELSE LET run == QuoteRun(Tail(input), "=")
         IN  IF Len(input) >= run + 2 /\ input[run + 2] = "*" THEN run ELSE 0

EndMark(k) == <<"*">> \o Repeat("=", k) \o <<"/">>

\* The index of the first end mark in the text, or 0
EndMarkIndex(text, k) ==
    LET marks == {i \in 1..Len(text) : StartsWith(From(text, i - 1), EndMark(k))}
    IN  IF marks = {} THEN 0 ELSE CHOOSE i \in marks : \A j \in marks : i <= j

NestableCommentEnds(item, text, k) ==
    IF EndMarkIndex(text, k) = 0
    THEN item = Err("Expected end of block comment, got end of input")
    ELSE item = Ok(JsonhToken_new("Comment",
                                  SubSeq(text, 1, EndMarkIndex(text, k) - 1)))

\* C28: a nestable block comment opened with k >= 1 '=' ends only at the
\* first '*' that has exactly k '=' and a '/' behind it; every '*' with
\* fewer '=' behind it, or with k '=' and no '/' behind them, is part of the
\* comment, as are the '=' read behind it; when the input ends first, the
\* error is "Expected end of block comment, got end of input".
C28_NestableCommentEndsAtItsEndMark ==
    Nests >= 1 /\ IsV2 /\ yielded # <<>>
        => NestableCommentEnds(yielded[1], From(input, Nests + 2), Nests)

C28_BlockCommentInsideNestableComment ==
    /\ input = Chars("/==*/=**=/*==/0")
    /\ Len(yielded) = 2
    /\ yielded[1] = Ok(JsonhToken_new("Comment", Chars("/=**=/")))
    /\ yielded[2] = Ok(JsonhToken_new("Number", <<"0">>))

-----------------------------------------------------------------------------
(* The stack of parse_element.                                             *)

ValueTypes == {"Null", "True", "False", "String", "Number", "StartObject", "StartArray"}

\* parse_next_element takes a token that is a value or starts one
ValueArrives ==
    /\ phase = "parse_next_element"
    /\ Len(yielded') = Len(yielded) + 1
    /\ IsToken(Last(yielded'), ValueTypes)

TopIs(t) == current_elements # <<>> /\ Last(current_elements).t = t

\* C30: whatever the tokenizer yields, a value or a start of one arrives
\* without a pending property name only when the stack is empty or an array
\* is on top of it, and with a pending property name only when an object is
\* on top; the value clears the property name that names it, unless it is a
\* number that fails to parse; parse_element never takes what is no array
\* for an array or what is no object for an object.
C30_StackDiscipline ==
    [][ValueArrives =>
          /\ IF current_property_name.some THEN TopIs("Object")
             ELSE current_elements = <<>> \/ TopIs("Array")
          /\ result'.kind # "Err" => ~current_property_name'.some
          /\ result'.kind # "Panic"]_vars

C30_NamedValueInNestedObject ==
    /\ phase = "parse_next_element"
    /\ Len(current_elements) = 2
    /\ TopIs("Object")
    /\ Len(yielded) >= 2
    /\ IsToken(yielded[Len(yielded) - 1], {"PropertyName"})
    /\ IsToken(Last(yielded), {"String", "Number"})
    /\ ~current_property_name.some

====
